---- MODULE Spec2Model ----
(***************************************************************************)
(* PyLag: the per-time-step particle update engine (FVCOMOPTModel), its    *)
(* seeding, and the parts of FVCOMDataReader it calls.                     *)
(*                                                                         *)
(* The mesh is a transect through a strip of triangles: element e has the  *)
(* nodes e and e+1 on the transect (ElemWidth apart) and one node off it.  *)
(* Particles move along the transect (y = 0) and in the vertical, so the   *)
(* third barycentric coordinate is always 0.  All lengths are integers;    *)
(* fractions (phi, sigma, omega) are kept exactly as numerator/denominator.*)
(***************************************************************************)
EXTENDS Integers, Sequences, FiniteSets, TLC

(***************************************************************************)
(* Flags (constants.pxi is included by the reader; the values are those    *)
(* update() compares against).                                             *)
(***************************************************************************)
IN_DOMAIN == 0
LAND_BDY_CROSSED == 0 - 1
OPEN_BDY_CROSSED == 0 - 2
BDY_ERROR == 0 - 3
N_VERTICES == 3
DEFAULT == 0 - 999

(***************************************************************************)
(* Bounds of the model.                                                    *)
(***************************************************************************)
MaxTime == 1

(***************************************************************************)
(* The grid (FVCOMDataReader._read_grid): a transect of n_elems elements.  *)
(***************************************************************************)
n_elems == 2
n_siglay == 2
n_siglev == n_siglay + 1
ElemWidth == 2
SigDen == 4
xmax == n_elems * ElemWidth

\* node coordinates on the transect; the off-transect node of element e is n_elems+1+e
nv(i, e) == IF i = 0 THEN e ELSE IF i = 1 THEN e + 1 ELSE n_elems + 1 + e
x_node(n) == IF n <= n_elems THEN n * ElemWidth ELSE (n - n_elems - 1) * ElemWidth

\* bathymetry at the nodes (positive down)
h_node(n) == IF n = n_elems THEN 4 ELSE 2

\* a grid g gives the type of the right-hand boundary edge (g.right) and the
\* lowest sigma level (g.bottom)
\* nbe[i, e]: the neighbour across the edge opposite vertex i; -1 land, -2 open
nbe(g, i, e) ==
    IF i = 0 THEN (IF e = n_elems - 1 THEN g.right ELSE e + 1)
    ELSE IF i = 1 THEN (IF e = 0 THEN LAND_BDY_CROSSED ELSE e - 1)
    ELSE LAND_BDY_CROSSED

\* sigma levels and layers at the nodes, in units of 1/SigDen
siglev(g, k, n) == IF k = 0 THEN 0 ELSE IF k = n_siglay THEN g.bottom ELSE 0 - 2 * k
siglay(g, k, n) == 0 - (2 * k + 1)

(***************************************************************************)
(* Exact fractions.                                                        *)
(***************************************************************************)
RECURSIVE Gcd(_, _)
Gcd(a, b) == IF b = 0 THEN a ELSE Gcd(b, a % b)

Abs(a) == IF a < 0 THEN 0 - a ELSE a

Rat(n, d) ==
    LET s == IF d < 0 THEN 0 - 1 ELSE 1
        g == Gcd(Abs(n), Abs(d))
    IN  IF n = 0 THEN [n |-> 0, d |-> 1]
        ELSE [n |-> (s * n) \div g, d |-> (s * d) \div g]

RInt(a) == [n |-> a, d |-> 1]
RLe(a, b) == a.n * b.d <= b.n * a.d
RLt(a, b) == a.n * b.d < b.n * a.d
RSub(a, b) == Rat(a.n * b.d - b.n * a.d, a.d * b.d)
RDiv(a, b) == Rat(a.n * b.d, a.d * b.n)

(***************************************************************************)
(* State.                                                                  *)
(***************************************************************************)
VARIABLES
    grid,                       \* the grid read by _read_grid
    config,                     \* the configuration object
    seed_input,                 \* _group_ids, _x_positions, _z_positions (set_particle_data)
    particle_seed_smart_ptrs,   \* the seed set, or None
    particle_smart_ptrs,        \* the active set that particle_ptrs points into
    time,                       \* the time the driver passes to seed/read_data/update
    med_frame,                  \* the mediator's last time index
    time_last, time_next,       \* FVCOMDataReader._time_last/_time_next
    zeta_last, zeta_next,       \* FVCOMDataReader._zeta_last/_zeta_next
    last,                       \* the last operation (seed, update, other), how it ended,
                                \* and whether it ran _create_seed
    trace,                      \* per active particle: what update() did for it, while
                                \* update() is the last operation
    heap,                       \* the Particle objects allocated by ParticleSmartPtr, by address
    seed_refs,                  \* particle_seed_smart_ptrs as a list of addresses, or None
    active_refs,                \* particle_smart_ptrs as a list of addresses
    particle_ptrs,              \* FVCOMOPTModel.particle_ptrs: the raw pointers update() walks
    ret,                        \* the value returned by the last call that returns one
    time_direction,             \* FVCOMDataReader._time_direction: 1 forward, -1 backward
    has_is_wet,                 \* FVCOMDataReader._has_is_wet
    u_last, u_next,             \* FVCOMDataReader._u_last/_u_next
    wet_cells_last, wet_cells_next, \* FVCOMDataReader._wet_cells_last/_wet_cells_next
    reads,                      \* how often the last read_data() called update_reading_frames
    runs,                       \* two executions of one configuration: for each the process's
                                \* generator r, its particle set and its update() count
    time_manager                \* the TimeManager under construction, or None

\* the storage of the particle sets and the return value of single calls
store_vars == << heap, seed_refs, active_refs, particle_ptrs >>
call_vars == << ret >>
process_vars == << runs, time_manager >>
\* the reader's fields besides the bracket times and the zeta frames
frame_vars == << time_direction, has_is_wet, u_last, u_next, wet_cells_last, wet_cells_next,
                 reads >>

vars == << grid, config, seed_input, particle_seed_smart_ptrs, particle_smart_ptrs,
           time, med_frame, time_last, time_next, zeta_last, zeta_next, last, trace,
           store_vars, call_vars, process_vars, frame_vars >>

None == << >>          \* Python's None; a value v that is not None is << v >>
Some(v) == << v >>
Nodes == 0 .. (2 * n_elems)

(***************************************************************************)
(* Particle (ParticleSmartPtr.__cinit__ and copy).                         *)
(***************************************************************************)
ParticleSmartPtr(group_id, xpos, ypos, host, in_domain) ==
    [ group_id |-> group_id, xpos |-> xpos, ypos |-> ypos, zpos |-> DEFAULT,
      phi |-> << DEFAULT, DEFAULT, DEFAULT >>,
      omega_interfaces |-> RInt(DEFAULT), omega_layers |-> RInt(DEFAULT),
      in_domain |-> in_domain, is_beached |-> 0, host_horizontal_elem |-> host,
      k_layer |-> DEFAULT, in_vertical_boundary_layer |-> FALSE,
      k_lower_layer |-> DEFAULT, k_upper_layer |-> DEFAULT ]

copy(p) ==
    [ group_id |-> p.group_id, xpos |-> p.xpos, ypos |-> p.ypos, zpos |-> p.zpos,
      phi |-> << p.phi[1], p.phi[2], p.phi[3] >>,
      omega_interfaces |-> p.omega_interfaces, omega_layers |-> p.omega_layers,
      in_domain |-> p.in_domain, is_beached |-> p.is_beached,
      host_horizontal_elem |-> p.host_horizontal_elem,
      k_layer |-> p.k_layer, in_vertical_boundary_layer |-> p.in_vertical_boundary_layer,
      k_lower_layer |-> p.k_lower_layer, k_upper_layer |-> p.k_upper_layer ]

(***************************************************************************)
(* Interpolation primitives (pylag.interpolation, pylag.math).             *)
(***************************************************************************)
\* (v - a) / (b - a)
get_linear_fraction(v, a, b) == RDiv(RSub(v, a), RSub(b, a))

\* the same, clamped to [0, 1]
get_linear_fraction_safe(v, a, b) ==
    LET f == get_linear_fraction(v, a, b)
    IN  IF RLt(f, RInt(0)) THEN RInt(0) ELSE IF RLt(RInt(1), f) THEN RInt(1) ELSE f

\* a + tau (b - a), for integer a, b; the data make the result an integer
linear_interp(tau, a, b) == a + (tau.n * (b - a)) \div tau.d

\* sum of vals[i] phi[i]; phi holds numerators over ElemWidth
interpolate_within_element_num(vals, phi) ==
    vals[1] * phi[1] + vals[2] * phi[2] + vals[3] * phi[3]

interpolate_within_element(vals, phi) ==
    interpolate_within_element_num(vals, phi) \div ElemWidth

\* sigma = (z - zeta) / (zeta - zmin)
cartesian_to_sigma_coords(z, zmin, zmax) == Rat(z - zmax, zmax - zmin)

\* z = zeta + sigma (zeta - zmin), for an integer sigma
sigma_to_cartesian_coords(sigma, zmin, zmax) == zmax + sigma * (zmax - zmin)

(***************************************************************************)
(* Unstructured grid: local coordinates and host searches.                 *)
(***************************************************************************)
\* barycentric numerators (over ElemWidth) of x in element e
get_phi(x, e) == << x_node(nv(1, e)) - x, x - x_node(nv(0, e)), 0 >>

Max(a, b) == IF a > b THEN a ELSE b
Min(a, b) == IF a < b THEN a ELSE b

\* recompute phi in the host; negative values are clamped and phi renormalised
set_local_coordinates(p) ==
    LET e == p.host_horizontal_elem
        xc == Max(x_node(nv(0, e)), Min(x_node(nv(1, e)), p.xpos))
    IN  [p EXCEPT !.phi = get_phi(xc, e)]

\* the index of the most negative barycentric coordinate
MostNegative(phi) == IF phi[1] < 0 THEN 0 ELSE 1

RECURSIVE LocalWalk(_, _, _, _)
LocalWalk(g, x, e, hops) ==
    LET phi == get_phi(x, e)
    IN  IF phi[1] >= 0 /\ phi[2] >= 0 /\ phi[3] >= 0
        THEN [flag |-> IN_DOMAIN, host |-> e]
        ELSE LET n == nbe(g, MostNegative(phi), e)
             IN  IF n = LAND_BDY_CROSSED THEN [flag |-> LAND_BDY_CROSSED, host |-> e]
                 ELSE IF n = OPEN_BDY_CROSSED THEN [flag |-> OPEN_BDY_CROSSED, host |-> e]
                 ELSE IF hops >= n_elems THEN [flag |-> BDY_ERROR, host |-> e]
                 ELSE LocalWalk(g, x, n, hops + 1)

find_host_using_local_search(g, x, first_guess) == LocalWalk(g, x, first_guess, 0)

\* the first element that contains x, or -1
find_host_using_global_search(g, x) ==
    LET found == { e \in 0 .. (n_elems - 1) :
                     LET phi == get_phi(x, e) IN phi[1] >= 0 /\ phi[2] >= 0 /\ phi[3] >= 0 }
    IN  IF found = {} THEN 0 - 1 ELSE CHOOSE e \in found : \A f \in found : e <= f

\* follow the pathline from the old host across the edges it crosses
RECURSIVE TraceWalk(_, _, _)
TraceWalk(g, x_new, e) ==
    IF x_new > x_node(nv(1, e))
    THEN LET n == nbe(g, 0, e)
         IN  IF n < 0 THEN [flag |-> n, host |-> e] ELSE TraceWalk(g, x_new, n)
    ELSE IF x_new < x_node(nv(0, e))
    THEN LET n == nbe(g, 1, e)
         IN  IF n < 0 THEN [flag |-> n, host |-> e] ELSE TraceWalk(g, x_new, n)
    ELSE [flag |-> IN_DOMAIN, host |-> e]

find_host_using_particle_tracing(g, x_old, x_new, host_old) == TraceWalk(g, x_new, host_old)

\* a search result, with the searches that were run to get it
Searched(r, searches) == [flag |-> r.flag, host |-> r.host, searches |-> searches]

\* find_host that checks the pathline whatever the local search says
find_host_always_tracing(g, x_old, x_new, guess) ==
    Searched(find_host_using_particle_tracing(g, x_old, x_new, guess),
             << "local", "tracing" >>)

\* FVCOMDataReader.find_host: the local search, then the pathline check
find_host(g, x_old, x_new, guess) ==
    LET loc == find_host_using_local_search(g, x_new, guess)
    IN  IF loc.flag # IN_DOMAIN
        THEN Searched(find_host_using_particle_tracing(g, x_old, x_new, guess),
                      << "local", "tracing" >>)
        ELSE Searched(loc, << "local" >>)

\* the x position of the boundary edge of last_host that the pathline crossed
get_boundary_intersection(x_old, x_new, last_host) ==
    IF x_new > x_node(nv(1, last_host)) THEN x_node(nv(1, last_host))
    ELSE x_node(nv(0, last_host))

(***************************************************************************)
(* Boundary condition calculators (pylag.boundary_conditions).             *)
(***************************************************************************)
\* reflect the new position across the crossed land edge
horiz_bc_apply(x_old, x_new, host) ==
    2 * get_boundary_intersection(x_old, x_new, host) - x_new

\* reflecting: mirror at the sea floor / free surface until zpos is in range
RECURSIVE reflect(_, _, _)
reflect(zpos, zmin, zmax) ==
    IF zpos < zmin THEN reflect(zmin + zmin - zpos, zmin, zmax)
    ELSE IF zpos > zmax THEN reflect(zmax + zmax - zpos, zmin, zmax)
    ELSE zpos

\* the vertical calculator: reflecting moves zpos, absorbing takes the particle
\* out of the domain
vert_bc_apply(policy, zpos, zmin, zmax) ==
    IF policy = "reflecting"
    THEN [zpos |-> reflect(zpos, zmin, zmax), in_domain |-> TRUE]
    ELSE [zpos |-> zpos, in_domain |-> FALSE]

(***************************************************************************)
(* The mediator: input frames FrameDt apart; the free surface of frame k.  *)
(***************************************************************************)
FrameDt == 2
time_step == 1

ZetaFrame(k) == [n \in Nodes |-> IF k % 2 = 0 THEN 2 ELSE 0]

\* update_reading_frames(t): the last time index becomes the frame that holds t
update_reading_frames(t) == t \div FrameDt

\* u on layer l in element e, and the wet flag of element e, in input frame k
UFrame(k) == [l \in 0 .. (n_siglay - 1) |->
                [e \in 0 .. (n_elems - 1) |-> (e + 1) + 2 * l + 2 * (k % 2)]]
WetFrame(k) == [e \in 0 .. (n_elems - 1) |-> IF e = 0 /\ k \in {1, 2} THEN 0 ELSE 1]

\* the input frames on either side of time index k: a forward run holds frame k
\* as "last", a backward run holds frame k + 1 as "last"
LastIndex(dir, k) == IF dir = 1 THEN k ELSE k + 1
NextIndex(dir, k) == IF dir = 1 THEN k + 1 ELSE k

(***************************************************************************)
(* FVCOMDataReader.  rd is the reader's state: grid, bracket times, frames.*)
(***************************************************************************)
Reader == [ grid |-> grid, time_last |-> time_last, time_next |-> time_next,
            zeta_last |-> zeta_last, zeta_next |-> zeta_next,
            time_direction |-> time_direction, has_is_wet |-> has_is_wet,
            u_last |-> u_last, u_next |-> u_next,
            wet_cells_last |-> wet_cells_last, wet_cells_next |-> wet_cells_next ]

\* read_data's test: does the bracket no longer hold the time?
frames_stale_forward_test(dir, time_fraction) ==
    RLt(time_fraction, RInt(0)) \/ RLe(RInt(1), time_fraction)

frames_stale(dir, time_fraction) ==
    IF dir = 1
    THEN RLt(time_fraction, RInt(0)) \/ RLe(RInt(1), time_fraction)
    ELSE RLe(time_fraction, RInt(0)) \/ RLt(RInt(1), time_fraction)

\* the calls of mediator.update_reading_frames one read_data makes
frame_requests_per_frame(stale) == IF stale THEN 2 ELSE 0

frame_requests(stale) == IF stale THEN 1 ELSE 0

\* is_wet(time, particle)
is_wet_last_frame_only(rd, t, p) ==
    IF rd.has_is_wet /\ rd.wet_cells_last[p.host_horizontal_elem] = 0 THEN 0 ELSE 1

is_wet(rd, t, p) ==
    LET host_element == p.host_horizontal_elem
    IN  IF rd.has_is_wet
           /\ (rd.wet_cells_last[host_element] = 0 \/ rd.wet_cells_next[host_element] = 0)
        THEN 0
        ELSE 1

get_zmin(rd, t, p) ==
    LET host_element == p.host_horizontal_elem
        h_tri == [i \in 1 .. N_VERTICES |-> h_node(nv(i - 1, host_element))]
        h == interpolate_within_element(h_tri, p.phi)
    IN  0 - h

get_zmax(rd, t, p) ==
    LET host_element == p.host_horizontal_elem
        time_fraction == get_linear_fraction_safe(RInt(t), RInt(rd.time_last), RInt(rd.time_next))
        zeta_tri == [i \in 1 .. N_VERTICES |->
                        linear_interp(time_fraction,
                                      rd.zeta_last[nv(i - 1, host_element)],
                                      rd.zeta_next[nv(i - 1, host_element)])]
    IN  interpolate_within_element(zeta_tri, p.phi)

\* sigma on level / layer kidx at phi, as a fraction
interp_on_sigma_level(rd, phi, host, kidx) ==
    Rat(interpolate_within_element_num(
            [i \in 1 .. N_VERTICES |-> siglev(rd.grid, kidx, nv(i - 1, host))], phi),
        SigDen * ElemWidth)

interp_on_sigma_layer(rd, phi, host, kidx) ==
    Rat(interpolate_within_element_num(
            [i \in 1 .. N_VERTICES |-> siglay(rd.grid, kidx, nv(i - 1, host))], phi),
        SigDen * ElemWidth)

\* the tests and index arithmetic of set_vertical_grid_vars for host layer k of
\* n layers: at_or_above is sigma >= sigma_test, at_or_below is sigma <= sigma_test
in_boundary_layer_top_only(n, k, at_or_above, at_or_below) == k = 0 /\ at_or_above

in_boundary_layer(n, k, at_or_above, at_or_below) ==
    (k = 0 /\ at_or_above) \/ (k = n - 1 /\ at_or_below)

upper_layer(k, at_or_above) == IF at_or_above THEN k - 1 ELSE k
lower_layer(k, at_or_above) == IF at_or_above THEN k ELSE k + 1

\* the same with a boundary layer test that leaves the midpoints out
SetLayerVars_midpoints_excluded(rd, p, sigma, k) ==
    LET phi == p.phi
        host_element == p.host_horizontal_elem
        sigma_upper_level == interp_on_sigma_level(rd, phi, host_element, k)
        sigma_lower_level == interp_on_sigma_level(rd, phi, host_element, k + 1)
        sigma_test == interp_on_sigma_layer(rd, phi, host_element, k)
        p1 == [p EXCEPT !.k_layer = k,
                        !.omega_interfaces =
                            get_linear_fraction(sigma, sigma_lower_level, sigma_upper_level)]
    IN  IF (k = 0 /\ RLt(sigma_test, sigma)) \/ (k = n_siglay - 1 /\ RLt(sigma, sigma_test))
        THEN [p1 EXCEPT !.in_vertical_boundary_layer = TRUE]
        ELSE LET k_upper == IF RLe(sigma_test, sigma) THEN k - 1 ELSE k
                 k_lower == IF RLe(sigma_test, sigma) THEN k ELSE k + 1
                 sigma_lower_layer == interp_on_sigma_layer(rd, phi, host_element, k_lower)
                 sigma_upper_layer == interp_on_sigma_layer(rd, phi, host_element, k_upper)
             IN  [p1 EXCEPT !.in_vertical_boundary_layer = FALSE,
                            !.k_upper_layer = k_upper,
                            !.k_lower_layer = k_lower,
                            !.omega_layers =
                                get_linear_fraction(sigma, sigma_lower_layer, sigma_upper_layer)]

\* the particle with its vertical grid variables set for host layer k
SetLayerVars(rd, p, sigma, k) ==
    LET phi == p.phi
        host_element == p.host_horizontal_elem
        sigma_upper_level == interp_on_sigma_level(rd, phi, host_element, k)
        sigma_lower_level == interp_on_sigma_level(rd, phi, host_element, k + 1)
        sigma_test == interp_on_sigma_layer(rd, phi, host_element, k)
        p1 == [p EXCEPT !.k_layer = k,
                        !.omega_interfaces =
                            get_linear_fraction(sigma, sigma_lower_level, sigma_upper_level)]
    IN  IF in_boundary_layer(n_siglay, k, RLe(sigma_test, sigma), RLe(sigma, sigma_test))
        THEN [p1 EXCEPT !.in_vertical_boundary_layer = TRUE]
        ELSE LET k_upper == upper_layer(k, RLe(sigma_test, sigma))
                 k_lower == lower_layer(k, RLe(sigma_test, sigma))
                 sigma_lower_layer == interp_on_sigma_layer(rd, phi, host_element, k_lower)
                 sigma_upper_layer == interp_on_sigma_layer(rd, phi, host_element, k_upper)
             IN  [p1 EXCEPT !.in_vertical_boundary_layer = FALSE,
                            !.k_upper_layer = k_upper,
                            !.k_lower_layer = k_lower,
                            !.omega_layers =
                                get_linear_fraction(sigma, sigma_lower_layer, sigma_upper_layer)]

\* the outcome for the layers that bracket sigma: the last one in loop order
enter_host_layer_last_bracket(rd, p, sigma, brackets) ==
    IF brackets = {}
    THEN [flag |-> BDY_ERROR, p |-> p]
    ELSE [flag |-> IN_DOMAIN,
          p |-> SetLayerVars(rd, p, sigma, CHOOSE k \in brackets : \A j \in brackets : k >= j)]

\* the outcome for the layers that bracket sigma: the first one in loop order
\* becomes the host layer; without one the particle is left as it is
enter_host_layer(rd, p, sigma, brackets) ==
    IF brackets = {}
    THEN [flag |-> BDY_ERROR, p |-> p]
    ELSE [flag |-> IN_DOMAIN,
          p |-> SetLayerVars(rd, p, sigma, CHOOSE k \in brackets : \A j \in brackets : k <= j)]

\* the loop over the levels, for the particle's sigma
find_host_layer(rd, p, sigma) ==
    enter_host_layer(rd, p, sigma,
        { k \in 0 .. (n_siglay - 1) :
            /\ RLe(sigma, interp_on_sigma_level(rd, p.phi, p.host_horizontal_elem, k))
            /\ RLe(interp_on_sigma_level(rd, p.phi, p.host_horizontal_elem, k + 1), sigma) })

\* the same, clearing the layer variables of a particle it cannot place
clear_unplaced(r) ==
    IF r.flag = BDY_ERROR
    THEN [r EXCEPT !.p = [r.p EXCEPT !.k_layer = DEFAULT, !.k_lower_layer = DEFAULT,
                                     !.k_upper_layer = DEFAULT]]
    ELSE r

set_vertical_grid_vars_clearing(rd, t, p) ==
    clear_unplaced(find_host_layer(rd, p,
        cartesian_to_sigma_coords(p.zpos, get_zmin(rd, t, p), get_zmax(rd, t, p))))

\* returns the flag and the particle as set_vertical_grid_vars leaves it
set_vertical_grid_vars(rd, t, p) ==
    find_host_layer(rd, p,
        cartesian_to_sigma_coords(p.zpos, get_zmin(rd, t, p), get_zmax(rd, t, p)))

(***************************************************************************)
(* FVCOMOPTModel._create_seed.                                             *)
(***************************************************************************)
\* the depth test of a seed particle: the bounds themselves are accepted
seed_depth_error_exclusive(zpos, zmin, zmax) == zpos <= zmin \/ zpos >= zmax

seed_depth_error(zpos, zmin, zmax) == zpos < zmin \/ zpos > zmax

\* the seed particle of one in-domain input, and whether its depth is valid
SeedParticle(rd, cfg, t, in, host_horizontal_elem) ==
    LET p0 == set_local_coordinates(
                  ParticleSmartPtr(in.group, in.x, 0, host_horizontal_elem, TRUE))
        zmin == get_zmin(rd, t, p0)
        zmax == get_zmax(rd, t, p0)
        p1 == IF cfg.depth_coordinates = "cartesian"
              THEN [p0 EXCEPT !.zpos = in.z + zmax]
              ELSE [p0 EXCEPT !.zpos = sigma_to_cartesian_coords(in.z, zmin, zmax)]
    IN  IF seed_depth_error(p1.zpos, zmin, zmax) THEN [raised |-> "ValueError", p |-> p1]
        ELSE [raised |-> "none", p |-> set_vertical_grid_vars(rd, t, p1).p]

\* the host search of one seed input: local from the last host, else global
SeedHost(rd, in, guess) ==
    IF guess # None
    THEN LET loc == find_host_using_local_search(rd.grid, in.x, guess[1])
         IN  IF loc.flag < 0 THEN find_host_using_global_search(rd.grid, in.x)
             ELSE loc.host
    ELSE find_host_using_global_search(rd.grid, in.x)

\* one pass of the loop over the seed positions: the particles it appends, the
\* host it leaves as the next first guess, and whether it raised
seed_one_skip_outside(rd, cfg, t, in, guess) ==
    LET host_horizontal_elem == SeedHost(rd, in, guess)
    IN  IF host_horizontal_elem >= 0
        THEN LET sp == SeedParticle(rd, cfg, t, in, host_horizontal_elem)
             IN  IF sp.raised # "none"
                 THEN [raised |-> sp.raised, ps |-> << >>, guess |-> guess]
                 ELSE [raised |-> "none", ps |-> << sp.p >>,
                       guess |-> Some(host_horizontal_elem)]
        ELSE [raised |-> "none", ps |-> << >>, guess |-> guess]

seed_one(rd, cfg, t, in, guess) ==
    LET host_horizontal_elem == SeedHost(rd, in, guess)
    IN  IF host_horizontal_elem >= 0
        THEN LET sp == SeedParticle(rd, cfg, t, in, host_horizontal_elem)
             IN  IF sp.raised # "none"
                 THEN [raised |-> sp.raised, ps |-> << >>, guess |-> guess]
                 ELSE [raised |-> "none", ps |-> << sp.p >>,
                       guess |-> Some(host_horizontal_elem)]
        ELSE [raised |-> "none",
              ps |-> << ParticleSmartPtr(in.group, DEFAULT, DEFAULT, DEFAULT, FALSE) >>,
              guess |-> guess]

\* the loop over the seed positions; s is what the pass for position i did
RECURSIVE create_seed_loop(_, _, _, _, _, _, _), create_seed_pass(_, _, _, _, _, _, _)
create_seed_pass(rd, cfg, t, input, i, acc, s) ==
    IF s.raised # "none" THEN [raised |-> s.raised, seed |-> acc]
    ELSE create_seed_loop(rd, cfg, t, input, i + 1, s.guess, acc \o s.ps)

create_seed_loop(rd, cfg, t, input, i, guess, acc) ==
    IF i > Len(input) THEN [raised |-> "none", seed |-> acc]
    ELSE create_seed_pass(rd, cfg, t, input, i, acc, seed_one(rd, cfg, t, input[i], guess))

create_seed(rd, cfg, t, input) == create_seed_loop(rd, cfg, t, input, 1, None, << >>)

(***************************************************************************)
(* FVCOMOPTModel.update, for one particle.                                 *)
(***************************************************************************)
\* what update() did for a particle: the collaborators it called, what advect
\* returned, the passes of the land loop, the final find_host flag and the flag
\* of set_vertical_grid_vars (DEFAULT: not called)
Idle == [calls |-> {}, host_err |-> DEFAULT, n_land |-> 0, flag |-> DEFAULT, vgv |-> DEFAULT]

\* the land boundary loop: reflect and search again while the flag is LAND
RECURSIVE LandLoop(_, _, _, _, _)
LandLoop(rd, p, xpos, fh, n) ==
    IF fh.flag = LAND_BDY_CROSSED
    THEN LET x2 == horiz_bc_apply(p.xpos, xpos, fh.host)
         IN  LandLoop(rd, p, x2,
                      find_host(rd.grid, p.xpos, x2, p.host_horizontal_elem), n + 1)
    ELSE [xpos |-> xpos, flag |-> fh.flag, host |-> fh.host, n |-> n]

\* the commit of a position found in the domain (the branch flag == 0); tb is
\* the time at which the column bounds and the grid variables are evaluated.
\* p2 is the particle after the vertical boundary condition, calls what ran.
commit_layer(vg, calls) == [p |-> vg.p, vgv |-> vg.flag, calls |-> calls]

commit_vertical(rd, cfg, tb, p1, zmin, zmax) ==
    IF p1.zpos < zmin \/ p1.zpos > zmax
    THEN LET bc == vert_bc_apply(cfg.vert_bc, p1.zpos, zmin, zmax)
         IN  commit_layer(
                 set_vertical_grid_vars(rd, tb,
                     [p1 EXCEPT !.zpos = bc.zpos, !.in_domain = p1.in_domain /\ bc.in_domain]),
                 {"vert_bc"})
    ELSE commit_layer(set_vertical_grid_vars(rd, tb, p1), {})

commit_located(rd, cfg, tb, p1) ==
    commit_vertical(rd, cfg, tb, p1, get_zmin(rd, tb, p1), get_zmax(rd, tb, p1))

CommitAt(rd, cfg, tb, p, xpos, zpos, host) ==
    commit_located(rd, cfg, tb,
        set_local_coordinates(
            [p EXCEPT !.xpos = xpos, !.zpos = zpos, !.host_horizontal_elem = host]))

CommitPosition_at_step_start(rd, cfg, t, p, xpos, zpos, host) ==
    CommitAt(rd, cfg, t, p, xpos, zpos, host)

CommitPosition(rd, cfg, t, p, xpos, zpos, host) ==
    CommitAt(rd, cfg, t + time_step, p, xpos, zpos, host)

\* the host search of the proposed position, with the land boundary loop
first_report(ll, fh) == [ll EXCEPT !.host = fh.host]

find_new_host_first_report(rd, p, xpos) ==
    first_report(LandLoop(rd, p, xpos,
                     find_host(rd.grid, p.xpos, xpos, p.host_horizontal_elem), 0),
                 find_host(rd.grid, p.xpos, xpos, p.host_horizontal_elem))

find_new_host(rd, p, xpos) ==
    LandLoop(rd, p, xpos, find_host(rd.grid, p.xpos, xpos, p.host_horizontal_elem), 0)

\* what update() did for a particle whose search ended with ll
moved(in, ll) ==
    [calls |-> {"advect", "random_walk", "find_host"}
                   \cup (IF ll.n > 0 THEN {"horiz_bc"} ELSE {}),
     host_err |-> in.host_err, n_land |-> ll.n, flag |-> ll.flag, vgv |-> DEFAULT]

committed(tr, c) ==
    [p |-> c.p, raised |-> "none",
     tr |-> [tr EXCEPT !.vgv = c.vgv, !.calls = tr.calls \cup c.calls]]

\* the end of the step, for the proposed depth zpos and the search result ll:
\* leave the domain (open boundary), commit, or raise
end_step_commit_on_open(rd, cfg, t, p, in, zpos, ll) ==
    IF ll.flag = OPEN_BDY_CROSSED
    THEN [p |-> [p EXCEPT !.in_domain = FALSE, !.xpos = ll.xpos, !.zpos = zpos,
                          !.host_horizontal_elem = ll.host],
          raised |-> "none", tr |-> moved(in, ll)]
    ELSE IF ll.flag = IN_DOMAIN
    THEN committed(moved(in, ll), CommitPosition(rd, cfg, t, p, ll.xpos, zpos, ll.host))
    ELSE [p |-> p, raised |-> "ValueError", tr |-> moved(in, ll)]

\* the same with the commit as the last branch instead of the raise
end_step_commit_otherwise(rd, cfg, t, p, in, zpos, ll) ==
    IF ll.flag = OPEN_BDY_CROSSED
    THEN [p |-> [p EXCEPT !.in_domain = FALSE], raised |-> "none", tr |-> moved(in, ll)]
    ELSE committed(moved(in, ll), CommitPosition(rd, cfg, t, p, ll.xpos, zpos, ll.host))

end_step(rd, cfg, t, p, in, zpos, ll) ==
    IF ll.flag = OPEN_BDY_CROSSED
    THEN [p |-> [p EXCEPT !.in_domain = FALSE], raised |-> "none", tr |-> moved(in, ll)]
    ELSE IF ll.flag = IN_DOMAIN
    THEN committed(moved(in, ll), CommitPosition(rd, cfg, t, p, ll.xpos, zpos, ll.host))
    ELSE [p |-> p, raised |-> "ValueError", tr |-> moved(in, ll)]

\* the step after advection succeeded: sum the displacements, find the host
move_particle(rd, cfg, t, p, in) ==
    end_step(rd, cfg, t, p, in, p.zpos + in.dz, find_new_host(rd, p, p.xpos + in.dx))

\* the step of a particle that is in the domain; in is what the integrator and
\* the random walk models return for it (host_err and the summed displacement)
update_in_domain_ignore_host_err(rd, cfg, t, p, in) == move_particle(rd, cfg, t, p, in)

update_in_domain(rd, cfg, t, p, in) ==
    IF in.host_err = OPEN_BDY_CROSSED
    THEN [p |-> [p EXCEPT !.in_domain = FALSE], raised |-> "none",
          tr |-> [Idle EXCEPT !.calls = {"advect"}, !.host_err = in.host_err]]
    ELSE move_particle(rd, cfg, t, p, in)

\* one pass of the loop body: particles outside the domain are skipped
reflag(u) == [u EXCEPT !.p = [u.p EXCEPT !.in_domain = (u.tr.flag = IN_DOMAIN)]]

update_particle_reflag(rd, cfg, t, p, in) ==
    IF p.in_domain \/ p.host_horizontal_elem >= 0
    THEN reflag(update_in_domain(rd, cfg, t, p, in))
    ELSE [p |-> p, raised |-> "none", tr |-> Idle]

update_particle_host_test(rd, cfg, t, p, in) ==
    IF p.host_horizontal_elem >= 0 THEN update_in_domain(rd, cfg, t, p, in)
    ELSE [p |-> p, raised |-> "none", tr |-> Idle]

update_particle(rd, cfg, t, p, in) ==
    IF p.in_domain THEN update_in_domain(rd, cfg, t, p, in)
    ELSE [p |-> p, raised |-> "none", tr |-> Idle]

\* the loop over particle_ptrs; u is what the pass for particle i did; an
\* exception ends the loop
RECURSIVE update_loop(_, _, _, _, _, _, _), update_pass(_, _, _, _, _, _, _, _)
update_pass(rd, cfg, t, ps, ins, i, acc, u) ==
    IF u.raised # "none"
    THEN [ps |-> Append(acc.ps, u.p) \o SubSeq(ps, i + 1, Len(ps)),
          tr |-> Append(acc.tr, u.tr) \o [j \in 1 .. (Len(ps) - i) |-> Idle],
          raised |-> u.raised]
    ELSE update_loop(rd, cfg, t, ps, ins, i + 1,
                     [ps |-> Append(acc.ps, u.p), tr |-> Append(acc.tr, u.tr),
                      raised |-> u.raised])

update_loop(rd, cfg, t, ps, ins, i, acc) ==
    IF i > Len(ps) THEN acc
    ELSE update_pass(rd, cfg, t, ps, ins, i, acc,
                     update_particle(rd, cfg, t, ps[i], ins[i]))

update(rd, cfg, t, ps, ins) ==
    update_loop(rd, cfg, t, ps, ins, 1, [ps |-> << >>, tr |-> << >>, raised |-> "none"])

(***************************************************************************)
(* Inputs.                                                                 *)
(***************************************************************************)
CartRef == [depth_coordinates |-> "cartesian", vert_bc |-> "reflecting"]
SigmaRef == [depth_coordinates |-> "sigma", vert_bc |-> "reflecting"]
CartAbs == [depth_coordinates |-> "cartesian", vert_bc |-> "absorbing"]

GridOpen == [right |-> OPEN_BDY_CROSSED, bottom |-> 0 - SigDen]
GridLand == [right |-> LAND_BDY_CROSSED, bottom |-> 0 - SigDen]
GridGap == [right |-> OPEN_BDY_CROSSED, bottom |-> 1 - SigDen]

\* the grids and configurations the model is run with
Setups ==
    { << GridOpen, CartRef >>, << GridLand, CartRef >>, << GridGap, CartRef >>,
      << GridOpen, SigmaRef >>, << GridOpen, CartAbs >> }

\* seed positions: outside the grid (x = -1) or inside; z is a distance below the
\* free surface (cartesian) or a sigma value (sigma)
SeedPoint(g, x, z) == [group |-> g, x |-> x, z |-> z]

SeedInputs ==
    { << SeedPoint(1, 1, z), SeedPoint(2, 0 - 1, 0) >> : z \in {0 - 5, 0 - 4, 0, 1} }
    \cup { << SeedPoint(1, 0 - 1, 0), SeedPoint(2, 3, z) >> : z \in {0 - 6, 0 - 1, 1} }
    \cup { << SeedPoint(1, 1, 0 - 1), SeedPoint(2, 3, 1) >>,
           << SeedPoint(1, 0 - 1, 0), SeedPoint(2, 0 - 1, 0) >> }

\* what the integrator and the random walk models hand back for one particle:
\* host_err and the summed displacement
NoInput == [host_err |-> 0, dx |-> 0, dz |-> 0]

Inputs ==
    { [host_err |-> 0 - 2, dx |-> 0, dz |-> 0] }
    \cup { [host_err |-> 0, dx |-> d[1], dz |-> d[2]] :
             d \in { << 0, 0 >>, << 1, 0 >>, << 0 - 1, 1 >>, << 2, 0 - 1 >>, << 5, 0 >>,
                     << 0 - 9, 0 >>, << 0, 0 - 7 >> } }

(***************************************************************************)
(* Initial state: the reader is constructed (grid and first frames read),  *)
(* the particle data are set, no seed exists.                              *)
(***************************************************************************)
\* no Particle is allocated, no call has returned
InitStore ==
    /\ heap = << >>
    /\ seed_refs = None
    /\ active_refs = << >>
    /\ particle_ptrs = << >>

InitCalls == ret = None

InitProcess == runs = None /\ time_manager = None

\* the fields _read_time_dependent_vars fills at construction, for time index k
InitFrames(dir, wet, k) ==
    /\ time_direction = dir
    /\ has_is_wet = wet
    /\ u_last = UFrame(LastIndex(dir, k))
    /\ u_next = UFrame(NextIndex(dir, k))
    /\ wet_cells_last = IF wet THEN WetFrame(LastIndex(dir, k)) ELSE None
    /\ wet_cells_next = IF wet THEN WetFrame(NextIndex(dir, k)) ELSE None
    /\ reads = 0

Init ==
    /\ \E s \in Setups : grid = s[1] /\ config = s[2]
    /\ seed_input \in SeedInputs
    /\ particle_seed_smart_ptrs = None
    /\ particle_smart_ptrs = << >>
    /\ time = 0
    /\ med_frame = 0
    /\ time_last = 0
    /\ time_next = FrameDt
    /\ zeta_last = ZetaFrame(0)
    /\ zeta_next = ZetaFrame(1)
    /\ last = [op |-> "other", raised |-> "none", created |-> FALSE]
    /\ trace = << >>
    /\ InitStore
    /\ InitCalls
    /\ InitProcess
    /\ InitFrames(1, FALSE, 0)

(***************************************************************************)
(* FVCOMOPTModel.seed(time).                                               *)
(***************************************************************************)
Seed ==
    LET cs == IF particle_seed_smart_ptrs = None
              THEN create_seed(Reader, config, time, seed_input)
              ELSE [raised |-> "none", seed |-> particle_seed_smart_ptrs[1]]
    IN  /\ particle_seed_smart_ptrs' = Some(cs.seed)
        /\ IF cs.raised # "none"
           THEN /\ UNCHANGED particle_smart_ptrs
                /\ trace' = [i \in 1 .. Len(particle_smart_ptrs) |-> Idle]
           ELSE /\ particle_smart_ptrs' = [i \in 1 .. Len(cs.seed) |-> copy(cs.seed[i])]
                /\ trace' = [i \in 1 .. Len(cs.seed) |-> Idle]
        /\ last' = [op |-> "seed", raised |-> cs.raised,
                    created |-> (particle_seed_smart_ptrs = None)]
        /\ UNCHANGED << grid, config, seed_input, time, med_frame, time_last, time_next,
                        zeta_last, zeta_next, store_vars, call_vars, process_vars,
                    frame_vars >>

(***************************************************************************)
(* FVCOMOPTModel.read_input_data(time) = FVCOMDataReader.read_data(time).  *)
(***************************************************************************)
ReadInputData ==
    LET time_fraction == get_linear_fraction(RInt(time), RInt(time_last), RInt(time_next))
    IN  /\ reads' = frame_requests(frames_stale(time_direction, time_fraction))
        /\ IF frames_stale(time_direction, time_fraction)
           THEN /\ med_frame' = update_reading_frames(time)
                /\ time_last' = LastIndex(time_direction, med_frame') * FrameDt
                /\ time_next' = NextIndex(time_direction, med_frame') * FrameDt
                /\ zeta_last' = ZetaFrame(LastIndex(time_direction, med_frame'))
                /\ zeta_next' = ZetaFrame(NextIndex(time_direction, med_frame'))
                /\ u_last' = UFrame(LastIndex(time_direction, med_frame'))
                /\ u_next' = UFrame(NextIndex(time_direction, med_frame'))
                /\ IF has_is_wet
                   THEN /\ wet_cells_last' = WetFrame(LastIndex(time_direction, med_frame'))
                        /\ wet_cells_next' = WetFrame(NextIndex(time_direction, med_frame'))
                   ELSE UNCHANGED << wet_cells_last, wet_cells_next >>
           ELSE UNCHANGED << med_frame, time_last, time_next, zeta_last, zeta_next,
                             u_last, u_next, wet_cells_last, wet_cells_next >>
        /\ last' = [op |-> "read_data", raised |-> "none", created |-> FALSE]
        /\ trace' = [i \in 1 .. Len(particle_smart_ptrs) |-> Idle]
        /\ UNCHANGED << grid, config, seed_input, particle_seed_smart_ptrs,
                        particle_smart_ptrs, time, store_vars, call_vars, process_vars,
                        time_direction, has_is_wet >>

(***************************************************************************)
(* FVCOMOPTModel.update(time).                                             *)
(***************************************************************************)
\* the inputs of one update(): the integrator and the random walk models are
\* called for the particles in the domain only
RECURSIVE InputsFrom(_, _, _)
InputsFrom(inputs, ps, i) ==
    IF i > Len(ps) THEN { << >> }
    ELSE { << a >> \o rest : a \in (IF ps[i].in_domain THEN inputs ELSE {NoInput}),
                             rest \in InputsFrom(inputs, ps, i + 1) }

UpdateInputs(ps, i) == InputsFrom(Inputs, ps, i)

\* update(time), the integrator and the random walk models handing back one of inputs
UpdateWith(inputs) ==
    \E ins \in InputsFrom(inputs, particle_smart_ptrs, 1) :
        LET u == update(Reader, config, time, particle_smart_ptrs, ins)
        IN  /\ particle_smart_ptrs' = u.ps
            /\ trace' = u.tr
            /\ last' = [op |-> "update", raised |-> u.raised, created |-> FALSE]
            /\ UNCHANGED << grid, config, seed_input, particle_seed_smart_ptrs, time,
                            med_frame, time_last, time_next, zeta_last, zeta_next,
                            store_vars, call_vars, process_vars, frame_vars >>

Update == UpdateWith(Inputs)

(***************************************************************************)
(* The driver's clock (TimeManager.update_current_time).                   *)
(***************************************************************************)
UpdateCurrentTime ==
    /\ time < MaxTime
    /\ time' = time + time_step
    /\ last' = [op |-> "other", raised |-> "none", created |-> FALSE]
    /\ trace' = [i \in 1 .. Len(particle_smart_ptrs) |-> Idle]
    /\ UNCHANGED << grid, config, seed_input, particle_seed_smart_ptrs,
                    particle_smart_ptrs, med_frame, time_last, time_next,
                    zeta_last, zeta_next, store_vars, call_vars, process_vars,
                    frame_vars >>

Next == Seed \/ ReadInputData \/ Update \/ UpdateCurrentTime

Spec == Init /\ [][Next]_vars

(***************************************************************************)
(* Properties of update() and seed().                                      *)
(***************************************************************************)
Particles == 1 .. Len(particle_smart_ptrs)

\* the state is the one an update() call has just left
Updated == last.op = "update"

\* position, host and local coordinates of a particle
Place(p) == << p.xpos, p.ypos, p.zpos, p.host_horizontal_elem, p.phi >>

\* C1: update() never sets in_domain back to TRUE: a particle that is out of
\* the domain when update() is entered is out of the domain when it returns.
C1_InDomainNeverRevived ==
    [][last'.op = "update" =>
           \A i \in Particles :
               ~particle_smart_ptrs[i].in_domain => ~particle_smart_ptrs'[i].in_domain]_vars

\* an update() ran over a particle that had left the domain in an earlier step
C1_Witness ==
    /\ Updated
    /\ \E i \in Particles :
           /\ ~particle_smart_ptrs[i].in_domain
           /\ particle_smart_ptrs[i].host_horizontal_elem >= 0
           /\ trace[i].calls = {}

\* C2: update() is a no-op for a particle that is out of the domain on entry:
\* none of its fields changes and no integrator, random walk, find_host or
\* boundary condition call is made for it.
C2_SkippedUnchanged ==
    [][last'.op = "update" =>
           \A i \in Particles :
               ~particle_smart_ptrs[i].in_domain =>
                   /\ particle_smart_ptrs'[i] = particle_smart_ptrs[i]
                   /\ trace'[i].calls = {}]_vars

\* one update() skipped a particle while it advanced another one
C2_Witness ==
    /\ Updated
    /\ \E i, j \in Particles :
           /\ ~particle_smart_ptrs[i].in_domain
           /\ trace[i].calls = {}
           /\ "find_host" \in trace[j].calls

\* C3: when advect() returns host_err = -2 the particle leaves the domain with
\* no displacement committed (position, host and phi as before the step) and
\* neither a random walk nor a boundary condition runs for it.
C3_AdvectExitCommitsNothing ==
    [][last'.op = "update" =>
           \A i \in Particles :
               trace'[i].host_err = OPEN_BDY_CROSSED =>
                   /\ ~particle_smart_ptrs'[i].in_domain
                   /\ particle_smart_ptrs'[i] =
                          [particle_smart_ptrs[i] EXCEPT !.in_domain = FALSE]
                   /\ trace'[i].calls = {"advect"}]_vars

\* the integrator reported a domain exit for a particle placed in the grid
C3_Witness ==
    /\ Updated
    /\ \E i \in Particles :
           /\ trace[i].host_err = OPEN_BDY_CROSSED
           /\ ~particle_smart_ptrs[i].in_domain
           /\ particle_smart_ptrs[i].zpos # DEFAULT

\* C4: when the move is finally classified OPEN_BDY_CROSSED the particle leaves
\* the domain and its position and host stay those of the last commit, in this
\* update() and in every later one.
C4_OpenBoundaryFreezes ==
    [][last'.op = "update" =>
           \A i \in Particles :
               /\ trace'[i].flag = OPEN_BDY_CROSSED =>
                      /\ ~particle_smart_ptrs'[i].in_domain
                      /\ Place(particle_smart_ptrs'[i]) = Place(particle_smart_ptrs[i])
               /\ ~particle_smart_ptrs[i].in_domain =>
                      Place(particle_smart_ptrs'[i]) = Place(particle_smart_ptrs[i])]_vars

\* a move was classified as crossing the open boundary
C4_Witness ==
    /\ Updated
    /\ \E i \in Particles :
           /\ trace[i].flag = OPEN_BDY_CROSSED
           /\ "find_host" \in trace[i].calls
           /\ ~particle_smart_ptrs[i].in_domain

LandLoopCap == 2

\* C6: the land boundary loop of update() is bounded by an iteration cap.
C6_LandLoopCapped ==
    \A i \in Particles : trace[i].n_land <= LandLoopCap

\* C7: when set_vertical_grid_vars returns BDY_ERROR during update(), update()
\* ends with an error; it never returns normally with the particle in the domain.
C7_BracketErrorSurfaced ==
    Updated =>
        \A i \in Particles :
            (particle_smart_ptrs[i].in_domain /\ trace[i].vgv = BDY_ERROR)
                => last.raised # "none"

\* the element holds the position: no local coordinate is negative
Contains(e, x) == \A k \in 1 .. N_VERTICES : get_phi(x, e)[k] >= 0

\* C8: a particle in the domain has a host >= 0, the host is an element of the
\* grid that holds the committed position, and the search that committed it
\* ended with the flag IN_DOMAIN.
C8_HostOfCommittedPosition ==
    \A i \in Particles :
        particle_smart_ptrs[i].in_domain =>
            /\ particle_smart_ptrs[i].host_horizontal_elem \in 0 .. (n_elems - 1)
            /\ Contains(particle_smart_ptrs[i].host_horizontal_elem,
                        particle_smart_ptrs[i].xpos)
            /\ (Updated /\ "find_host" \in trace[i].calls)
                   => trace[i].flag = IN_DOMAIN

\* a position was committed after the search had reported a land crossing
C8_Witness ==
    /\ Updated
    /\ \E i \in Particles :
           /\ particle_smart_ptrs[i].in_domain
           /\ trace[i].n_land > 0
           /\ trace[i].flag = IN_DOMAIN

OutsideGrid(x) == x < 0 \/ x > xmax

\* the particle _create_seed makes for a position without a host
Unplaced(in) == ParticleSmartPtr(in.group, DEFAULT, DEFAULT, DEFAULT, FALSE)

\* C9: a seed position outside the grid raises no error; its particle is made
\* with in_domain = FALSE, stands at the position's index in the seed and the
\* active set, and stays as it is through every update().
C9_UnplacedSeedKept ==
    /\ particle_seed_smart_ptrs # None =>
           \A i \in 1 .. Len(particle_seed_smart_ptrs[1]) :
               OutsideGrid(seed_input[i].x) =>
                   particle_seed_smart_ptrs[1][i] = Unplaced(seed_input[i])
    /\ \A i \in Particles :
           OutsideGrid(seed_input[i].x) => particle_smart_ptrs[i] = Unplaced(seed_input[i])
    /\ (last.op = "seed" /\ last.raised # "none") =>
           \E i \in 1 .. Len(seed_input) : ~OutsideGrid(seed_input[i].x)
    /\ (last.op = "seed" /\ last.created /\ last.raised = "none") =>
           /\ Len(particle_seed_smart_ptrs[1]) = Len(seed_input)
           /\ Len(particle_smart_ptrs) = Len(seed_input)

\* an update() ran over the particle of an outside seed and moved another one
C9_Witness ==
    /\ Updated
    /\ \E i, j \in Particles :
           /\ OutsideGrid(seed_input[i].x)
           /\ particle_smart_ptrs[i] = Unplaced(seed_input[i])
           /\ "random_walk" \in trace[j].calls

\* column bounds and depth of seed position i at the present time, as the
\* configuration reads its third coordinate
SeedColumn(i) ==
    LET in == seed_input[i]
        probe == set_local_coordinates(
                     ParticleSmartPtr(in.group, in.x, 0,
                                      find_host_using_global_search(grid, in.x), TRUE))
        zmin == get_zmin(Reader, time, probe)
        zmax == get_zmax(Reader, time, probe)
    IN  [zmin |-> zmin, zmax |-> zmax,
         z |-> IF config.depth_coordinates = "cartesian" THEN in.z + zmax
               ELSE zmax + in.z * (zmax - zmin)]

\* C10: seed creation raises exactly when a position inside the grid has a
\* depth below zmin or above zmax; depths from zmin to zmax, both included,
\* are accepted and become the particle's zpos.
C10_SeedDepthChecked ==
    (last.op = "seed" /\ last.created) =>
        /\ last.raised # "none" <=>
               \E i \in 1 .. Len(seed_input) :
                   /\ ~OutsideGrid(seed_input[i].x)
                   /\ (SeedColumn(i).z < SeedColumn(i).zmin
                           \/ SeedColumn(i).z > SeedColumn(i).zmax)
        /\ \A i \in 1 .. Len(particle_seed_smart_ptrs[1]) :
               ~OutsideGrid(seed_input[i].x) =>
                   /\ particle_seed_smart_ptrs[1][i].in_domain
                   /\ particle_seed_smart_ptrs[1][i].zpos = SeedColumn(i).z

\* a seed given in sigma coordinates that lies on the sea floor is accepted
C10_Witness ==
    /\ last.op = "seed" /\ last.created /\ last.raised = "none"
    /\ \E i \in 1 .. Len(particle_seed_smart_ptrs[1]) :
           /\ particle_seed_smart_ptrs[1][i].in_domain
           /\ particle_seed_smart_ptrs[1][i].zpos = SeedColumn(i).zmin
           /\ config.depth_coordinates = "sigma"

(***************************************************************************)
(* Storage of the particle sets.  A ParticleSmartPtr owns one Particle     *)
(* allocated by PyMem_Malloc and freed by __dealloc__; particle_ptrs holds *)
(* the raw pointers get_ptr() hands out.  heap maps the addresses of the   *)
(* live Particle objects to their fields.                                  *)
(***************************************************************************)
MaxAddr == 4
Addrs == 1 .. MaxAddr

\* the addresses PyMem_Malloc may return
malloc(h) == Addrs \ DOMAIN h

\* the addresses n successive allocations may return
RECURSIVE Allocs(_, _)
Allocs(free, n) ==
    IF n = 0 THEN { << >> }
    ELSE UNION { { << a >> \o r : r \in Allocs(free \ {a}, n - 1) } : a \in free }

Range(s) == { s[i] : i \in 1 .. Len(s) }

\* ParticleSmartPtr.__cinit__ at address a with the fields p
cinit(h, a, p) == (a :> p) @@ h

\* ParticleSmartPtr.__dealloc__ of the objects at dead
dealloc(h, dead) == [a \in (DOMAIN h) \ dead |-> h[a]]

get_ptr(a) == a

\* copy(): a new ParticleSmartPtr at dst, built from the fields of the one at src
copy_at(h, src, dst) == cinit(h, dst, copy(h[src]))

\* _create_seed's appends: the seed particles vals are allocated at addrs
RECURSIVE create_seed_at(_, _, _, _)
create_seed_at(h, vals, addrs, i) ==
    IF i > Len(vals) THEN h
    ELSE create_seed_at(cinit(h, addrs[i], vals[i]), vals, addrs, i + 1)

\* one pass of seed()'s loop, pushing the pointer of the seed particle itself
seed_append_seed_ptr(st, ref, addr) ==
    [ heap |-> copy_at(st.heap, ref, addr),
      active |-> Append(st.active, addr),
      ptrs |-> Append(st.ptrs, get_ptr(ref)) ]

\* one pass of seed()'s loop
seed_append(st, ref, addr) ==
    [ heap |-> copy_at(st.heap, ref, addr),
      active |-> Append(st.active, addr),
      ptrs |-> Append(st.ptrs, get_ptr(addr)) ]

RECURSIVE seed_loop(_, _, _, _)
seed_loop(st, refs, addrs, i) ==
    IF i > Len(refs) THEN st
    ELSE seed_loop(seed_append(st, refs[i], addrs[i]), refs, addrs, i + 1)

\* seed() once the seed set exists: the active set and the pointers to it are
\* destroyed, then rebuilt from copies at the addresses addrs
seed_at(h, refs, old_active, addrs) ==
    seed_loop([heap |-> dealloc(h, Range(old_active)), active |-> << >>, ptrs |-> << >>],
              refs, addrs, 1)

\* update() walks particle_ptrs and writes through each pointer
Deref(h, ptrs) == [i \in 1 .. Len(ptrs) |-> h[ptrs[i]]]

write_back(h, ptrs, ps) ==
    [a \in DOMAIN h |-> IF a \in Range(ptrs)
                        THEN ps[CHOOSE i \in 1 .. Len(ptrs) : ptrs[i] = a]
                        ELSE h[a]]

StoreSeedInputs ==
    { << SeedPoint(1, 1, 0 - 1), SeedPoint(2, 3, 0 - 1) >>,
      << SeedPoint(1, 1, 0 - 1), SeedPoint(2, 0 - 1, 0) >>,
      << SeedPoint(1, 1, 0 - 1), SeedPoint(2, 3, 1) >> }

StoreInputs ==
    { [host_err |-> 0, dx |-> d[1], dz |-> d[2]] :
        d \in { << 1, 0 - 1 >>, << 5, 0 >> } }

InitReaderAtRest ==
    /\ grid = GridOpen
    /\ config = CartRef
    /\ particle_seed_smart_ptrs = None
    /\ particle_smart_ptrs = << >>
    /\ time = 0
    /\ med_frame = 0
    /\ time_last = 0
    /\ time_next = FrameDt
    /\ zeta_last = ZetaFrame(0)
    /\ zeta_next = ZetaFrame(1)
    /\ last = [op |-> "other", raised |-> "none", created |-> FALSE]
    /\ trace = << >>

InitStorage ==
    /\ InitReaderAtRest
    /\ seed_input \in StoreSeedInputs
    /\ InitStore
    /\ InitCalls
    /\ InitProcess
    /\ InitFrames(1, FALSE, 0)

\* FVCOMOPTModel.seed(time), with the addresses the allocations return
SeedAt ==
    /\ IF seed_refs = None
       THEN LET cs == create_seed(Reader, config, time, seed_input)
            IN  \E sa \in Allocs(malloc(heap), Len(cs.seed)) :
                  /\ seed_refs' = Some(sa)
                  /\ last' = [op |-> "seed", raised |-> cs.raised, created |-> TRUE]
                  /\ IF cs.raised # "none"
                     THEN /\ heap' = create_seed_at(heap, cs.seed, sa, 1)
                          /\ UNCHANGED << active_refs, particle_ptrs >>
                     ELSE \E aa \in Allocs((malloc(heap) \ Range(sa)) \cup Range(active_refs),
                                           Len(sa)) :
                            LET st == seed_at(create_seed_at(heap, cs.seed, sa, 1), sa,
                                              active_refs, aa)
                            IN  /\ heap' = st.heap
                                /\ active_refs' = st.active
                                /\ particle_ptrs' = st.ptrs
       ELSE \E aa \in Allocs(malloc(heap) \cup Range(active_refs), Len(seed_refs[1])) :
              LET st == seed_at(heap, seed_refs[1], active_refs, aa)
              IN  /\ heap' = st.heap
                  /\ active_refs' = st.active
                  /\ particle_ptrs' = st.ptrs
                  /\ UNCHANGED seed_refs
                  /\ last' = [op |-> "seed", raised |-> "none", created |-> FALSE]
    /\ UNCHANGED << grid, config, seed_input, particle_seed_smart_ptrs, particle_smart_ptrs,
                    time, med_frame, time_last, time_next, zeta_last, zeta_next, trace,
                    call_vars, process_vars, frame_vars >>

\* FVCOMOPTModel.update(time), through the raw pointers
UpdateAt ==
    /\ Range(particle_ptrs) \subseteq DOMAIN heap
    /\ \E ins \in InputsFrom(StoreInputs, Deref(heap, particle_ptrs), 1) :
         LET u == update(Reader, config, time, Deref(heap, particle_ptrs), ins)
         IN  /\ heap' = write_back(heap, particle_ptrs, u.ps)
             /\ last' = [op |-> "update", raised |-> u.raised, created |-> FALSE]
    /\ UNCHANGED << grid, config, seed_input, particle_seed_smart_ptrs, particle_smart_ptrs,
                    time, med_frame, time_last, time_next, zeta_last, zeta_next, trace,
                    seed_refs, active_refs, particle_ptrs, call_vars, process_vars, frame_vars >>

NextStorage == SeedAt \/ UpdateAt

SpecStorage == InitStorage /\ [][NextStorage]_vars

SeedAddrs == IF seed_refs = None THEN << >> ELSE seed_refs[1]
SeedObjects == Deref(heap, SeedAddrs)
ActiveObjects == Deref(heap, active_refs)
Injective(s) == \A i, j \in 1 .. Len(s) : s[i] = s[j] => i = j

MaxJunk == 1
\* what an unassigned integer member may read as
Uninitialised == 0 .. MaxJunk

\* the Particle behind a ParticleSmartPtr built with the fields p
Particle(p, id, status) == p @@ [id |-> id, status |-> status]

\* the particles copy() is applied to: located or not, with any id and status
CopySources ==
    { Particle([ParticleSmartPtr(g, x, 0, x \div ElemWidth, d) EXCEPT
                   !.zpos = z, !.phi = << x % ElemWidth, ElemWidth - (x % ElemWidth), 0 >>],
               id, status) :
        g \in 1 .. 2, x \in 0 .. 1, z \in {0 - 1}, d \in BOOLEAN,
        id \in Uninitialised, status \in Uninitialised }

InitCopy ==
    /\ InitReaderAtRest
    /\ seed_input = << >>
    /\ \E q \in CopySources : \E a \in Addrs : heap = cinit(<< >>, a, q)
    /\ seed_refs = None
    /\ active_refs = << >>
    /\ particle_ptrs = << >>
    /\ InitCalls
    /\ InitProcess
    /\ InitFrames(1, FALSE, 0)

\* q = copy(p) for a live p: a new ParticleSmartPtr is built from p's fields
Copy ==
    /\ ret = None
    /\ \E src \in DOMAIN heap : \E dst \in malloc(heap) :
         \E id \in Uninitialised, status \in Uninitialised :
           /\ heap' = cinit(heap, dst, Particle(copy(heap[src]), id, status))
           /\ UNCHANGED process_vars
           /\ ret' = Some([call |-> "copy", src |-> src, dst |-> dst])
    /\ UNCHANGED << grid, config, seed_input, particle_seed_smart_ptrs, particle_smart_ptrs,
                    time, med_frame, time_last, time_next, zeta_last, zeta_next, last, trace,
                    seed_refs, active_refs, particle_ptrs, frame_vars >>

\* a write through get_ptr() of the copy: the particle is moved and relocated
WriteCopy ==
    /\ ret # None /\ ret[1].call = "copy"
    /\ \E x \in 0 .. 1 :
         heap' = [heap EXCEPT ![ret[1].dst] =
                     [@ EXCEPT !.xpos = x,
                               !.phi = << x % ElemWidth, ElemWidth - (x % ElemWidth), 0 >>]]
    /\ UNCHANGED process_vars
    /\ ret' = Some([call |-> "write", src |-> ret[1].src, dst |-> ret[1].dst])
    /\ UNCHANGED << grid, config, seed_input, particle_seed_smart_ptrs, particle_smart_ptrs,
                    time, med_frame, time_last, time_next, zeta_last, zeta_next, last, trace,
                    seed_refs, active_refs, particle_ptrs, frame_vars >>

\* the copy goes out of scope
DropCopy ==
    /\ ret # None
    /\ heap' = dealloc(heap, {ret[1].dst})
    /\ UNCHANGED process_vars
    /\ ret' = None
    /\ UNCHANGED << grid, config, seed_input, particle_seed_smart_ptrs, particle_smart_ptrs,
                    time, med_frame, time_last, time_next, zeta_last, zeta_next, last, trace,
                    seed_refs, active_refs, particle_ptrs, frame_vars >>

NextCopy == Copy \/ WriteCopy \/ DropCopy

SpecCopy == InitCopy /\ [][NextCopy]_vars

\* C12: right after q = copy(p), q equals p on every field of Particle (group id,
\* id, status, position, phi, omegas, layer indices, in_domain, is_beached, host,
\* in_vertical_boundary_layer), and q is another object than p.
C12_CopyEqualOnEveryField ==
    (ret # None /\ ret[1].call = "copy")
        => /\ ret[1].dst # ret[1].src
           /\ heap[ret[1].dst] = heap[ret[1].src]

(***************************************************************************)
(* get_velocity (_get_velocity_using_shepard_interpolation).  The model    *)
(* carries the u component; v and w are computed by the same statements    *)
(* from their own frames.                                                  *)
(***************************************************************************)
Lcm(a, b) == (a \div Gcd(a, b)) * b

\* a - b and a * b for fractions, over the least common denominator
RSubL(a, b) ==
    Rat(a.n * (Lcm(a.d, b.d) \div a.d) - b.n * (Lcm(a.d, b.d) \div b.d), Lcm(a.d, b.d))
RMul(a, b) == Rat(a.n * b.n, a.d * b.d)

\* linear_interp(tau, a, b) = a + tau (b - a) = a - tau (a - b), for fractions
linear_interp_frac(tau, a, b) == RSubL(a, RMul(tau, RSubL(a, b)))

\* centre of element e (_xc, _yc): the transect lies on y = 0
xc_elem(e) == x_node(nv(0, e)) + ElemWidth \div 2
yc_elem(e) == 0

\* the square of get_euclidian_distance
Dist2(x, y, xpt, ypt) == (x - xpt) * (x - xpt) + (y - ypt) * (y - ypt)

\* the least common multiple of the squared distances to the first npts points
RECURSIVE LcmDist2(_, _, _, _, _)
LcmDist2(x, y, npts, xpts, ypts) ==
    IF npts = 0 THEN 1
    ELSE Lcm(Dist2(x, y, xpts[npts], ypts[npts]), LcmDist2(x, y, npts - 1, xpts, ypts))

\* the sums of w and of w * vals over the first npts points, w = 1 / r^2, both
\* multiplied by m (a common multiple of the r^2, so that they are integers)
RECURSIVE ShepardSums(_, _, _, _, _, _, _)
ShepardSums(x, y, npts, xpts, ypts, vals, m) ==
    IF npts = 0 THEN [sum |-> 0, sumw |-> 0]
    ELSE LET s == ShepardSums(x, y, npts - 1, xpts, ypts, vals, m)
             w == m \div Dist2(x, y, xpts[npts], ypts[npts])
         IN  [sum |-> s.sum + w, sumw |-> s.sumw + w * vals[npts]]

\* interpolation.pyx: the value at the first point with r = 0, else sumw / sum
shephard_interpolation(x, y, npts, xpts, ypts, vals) ==
    LET at == { i \in 1 .. npts : Dist2(x, y, xpts[i], ypts[i]) = 0 }
    IN  IF at # {}
        THEN RInt(vals[CHOOSE i \in at : \A j \in at : i <= j])
        ELSE LET s == ShepardSums(x, y, npts, xpts, ypts, vals,
                                  LcmDist2(x, y, npts, xpts, ypts))
             IN  Rat(s.sumw, s.sum)

\* the call the reader makes: the vectors carry their own size
shepard_interpolation(x, y, xc, yc, vals) ==
    shephard_interpolation(x, y, Len(xc), xc, yc, vals)

\* entry 1 is the host, entries 2..4 the neighbours across the three edges
CentreElem(rd, host_element, i) ==
    IF i = 1 THEN host_element ELSE nbe(rd.grid, i - 2, host_element)

\* xc, yc and the values on layer k; an entry without a neighbour keeps the -999.
\* the vector was built with
CentreX(rd, host_element) ==
    [i \in 1 .. 4 |-> IF CentreElem(rd, host_element, i) >= 0
                      THEN xc_elem(CentreElem(rd, host_element, i)) ELSE DEFAULT]
CentreY(rd, host_element) ==
    [i \in 1 .. 4 |-> IF CentreElem(rd, host_element, i) >= 0
                      THEN yc_elem(CentreElem(rd, host_element, i)) ELSE DEFAULT]
CentreU(rd, t, host_element, k) ==
    [i \in 1 .. 4 |->
        IF CentreElem(rd, host_element, i) >= 0
        THEN linear_interp(
                 get_linear_fraction_safe(RInt(t), RInt(rd.time_last), RInt(rd.time_next)),
                 rd.u_last[k][CentreElem(rd, host_element, i)],
                 rd.u_next[k][CentreElem(rd, host_element, i)])
        ELSE DEFAULT]

\* u at the particle on layer k
layer_velocity(rd, t, p, k) ==
    shepard_interpolation(p.xpos, p.ypos,
                          CentreX(rd, p.host_horizontal_elem),
                          CentreY(rd, p.host_horizontal_elem),
                          CentreU(rd, t, p.host_horizontal_elem, k))

get_velocity(rd, t, p) ==
    IF p.in_vertical_boundary_layer
    THEN layer_velocity(rd, t, p, p.k_layer)
    ELSE linear_interp_frac(p.omega_layers,
                            layer_velocity(rd, t, p, p.k_lower_layer),
                            layer_velocity(rd, t, p, p.k_upper_layer))

(***************************************************************************)
(* Single calls of FVCOMDataReader methods on a reader at rest: the caller *)
(* passes any particle position, the value returned is kept in ret.        *)
(***************************************************************************)
\* the x positions a caller may pass: the transect and one element width around it
Positions == (0 - 1) .. (xmax + 1)

InitCalling ==
    /\ InitReaderAtRest
    /\ seed_input = << >>
    /\ InitStore
    /\ InitCalls
    /\ InitProcess
    /\ InitFrames(1, FALSE, 0)

\* flag, host = find_host(particle_old, particle_new), for an old position inside
\* the grid with its host, and any new position
FindHost ==
    /\ \E x_old \in 0 .. xmax, x_new \in Positions :
         \E host_old \in { e \in 0 .. (n_elems - 1) : Contains(e, x_old) } :
           ret' = Some([call |-> "find_host", x_old |-> x_old, x_new |-> x_new,
                        host_old |-> host_old,
                        value |-> find_host(grid, x_old, x_new, host_old)])
    /\ UNCHANGED << grid, config, seed_input, particle_seed_smart_ptrs, particle_smart_ptrs,
                    time, med_frame, time_last, time_next, zeta_last, zeta_next, last, trace,
                    store_vars, process_vars, frame_vars >>

\* the particles get_velocity is called for: located in the grid at time t
Located(rd, t) ==
    { sp.p : sp \in { s \in { SeedParticle(rd, CartRef, t, SeedPoint(1, x, z), e) :
                                x \in 0 .. xmax, z \in (0 - 4) .. 0, e \in 0 .. (n_elems - 1) } :
                        s.raised = "none" /\ Contains(s.p.host_horizontal_elem, s.p.xpos) } }

GetVelocity ==
    /\ \E t \in 0 .. (FrameDt - 1) : \E p \in Located(Reader, t) :
         /\ time' = t
         /\ UNCHANGED process_vars
         /\ ret' = Some([call |-> "get_velocity", particle |-> p,
                         value |-> get_velocity(Reader, t, p)])
    /\ UNCHANGED << grid, config, seed_input, particle_seed_smart_ptrs, particle_smart_ptrs,
                    med_frame, time_last, time_next, zeta_last, zeta_next, last, trace,
                    store_vars, frame_vars >>

NextCalling == FindHost \/ GetVelocity

SpecCalling == InitCalling /\ [][NextCalling]_vars

ValidEntries(rd, host_element, vec) ==
    SelectSeq([i \in 1 .. 4 |-> << CentreElem(rd, host_element, i), vec[i] >>],
              LAMBDA pr : pr[1] >= 0)

ValidOnly(rd, host_element, vec) ==
    [i \in 1 .. Len(ValidEntries(rd, host_element, vec)) |->
        ValidEntries(rd, host_element, vec)[i][2]]

\* Shepard interpolation of u on layer k over the host centre and the centres of
\* the neighbours with nbe >= 0 alone
ValidLayerVelocity(rd, t, p, k) ==
    shepard_interpolation(p.xpos, p.ypos,
                          ValidOnly(rd, p.host_horizontal_elem, CentreX(rd, p.host_horizontal_elem)),
                          ValidOnly(rd, p.host_horizontal_elem, CentreY(rd, p.host_horizontal_elem)),
                          ValidOnly(rd, p.host_horizontal_elem,
                                    CentreU(rd, t, p.host_horizontal_elem, k)))

ValidVelocity(rd, t, p) ==
    IF p.in_vertical_boundary_layer
    THEN ValidLayerVelocity(rd, t, p, p.k_layer)
    ELSE linear_interp_frac(p.omega_layers,
                            ValidLayerVelocity(rd, t, p, p.k_lower_layer),
                            ValidLayerVelocity(rd, t, p, p.k_upper_layer))

\* C16: the velocity get_velocity returns is the Shepard interpolation over the host
\* centre and the centres of the neighbours with nbe >= 0 alone: the placeholder
\* entries of the missing neighbours contribute nothing to it.
C16_PlaceholdersContributeNothing ==
    (ret # None /\ ret[1].call = "get_velocity")
        => ret[1].value = ValidVelocity(Reader, time, ret[1].particle)

(***************************************************************************)
(* The reader driven at any time, forward or backward: the driver passes   *)
(* any time of the input period to read_data and update, and asks whether  *)
(* a particle's host is wet.                                               *)
(***************************************************************************)
TimeSpan == 2

ReaderSeedInput == << SeedPoint(1, 1, 0 - 1), SeedPoint(2, 0 - 1, 0) >>

\* the reader as constructed at the start time: the start of the input period for
\* a forward run, its end for a backward run
InitReader ==
    \E dir \in {1, 0 - 1} : \E wet \in BOOLEAN :
        /\ grid = GridOpen
        /\ config = CartRef
        /\ seed_input = ReaderSeedInput
        /\ particle_seed_smart_ptrs = None
        /\ particle_smart_ptrs = << >>
        /\ time = (IF dir = 1 THEN 0 ELSE TimeSpan)
        /\ med_frame = update_reading_frames(time)
        /\ time_last = LastIndex(dir, med_frame) * FrameDt
        /\ time_next = NextIndex(dir, med_frame) * FrameDt
        /\ zeta_last = ZetaFrame(LastIndex(dir, med_frame))
        /\ zeta_next = ZetaFrame(NextIndex(dir, med_frame))
        /\ last = [op |-> "other", raised |-> "none", created |-> FALSE]
        /\ trace = << >>
        /\ InitStore
        /\ InitCalls
        /\ InitProcess
        /\ InitFrames(dir, wet, med_frame)

\* the driver moves to another time of the input period
SetTime ==
    /\ \E t \in 0 .. TimeSpan : time' = t
    /\ last' = [op |-> "other", raised |-> "none", created |-> FALSE]
    /\ trace' = [i \in 1 .. Len(particle_smart_ptrs) |-> Idle]
    /\ UNCHANGED << grid, config, seed_input, particle_seed_smart_ptrs,
                    particle_smart_ptrs, med_frame, time_last, time_next,
                    zeta_last, zeta_next, store_vars, call_vars, process_vars,
                    frame_vars >>

\* update(time) for particles that drift along the transect
ReaderInputs ==
    { [host_err |-> 0, dx |-> d, dz |-> 0] : d \in {0 - 1, 1} }

UpdateDrift == UpdateWith(ReaderInputs)

\* is_wet(time, particle) for a located particle of the active set
IsWet ==
    /\ \E i \in 1 .. Len(particle_smart_ptrs) :
         /\ particle_smart_ptrs[i].in_domain
         /\ UNCHANGED process_vars
         /\ ret' = Some([call |-> "is_wet", particle |-> i,
                         value |-> is_wet(Reader, time, particle_smart_ptrs[i])])
    /\ last' = [op |-> "is_wet", raised |-> "none", created |-> FALSE]
    /\ trace' = [i \in 1 .. Len(particle_smart_ptrs) |-> Idle]
    /\ UNCHANGED << grid, config, seed_input, particle_seed_smart_ptrs,
                    particle_smart_ptrs, time, med_frame, time_last, time_next,
                    zeta_last, zeta_next, store_vars, frame_vars >>

NextReader == Seed \/ ReadInputData \/ UpdateDrift \/ SetTime \/ IsWet

SpecReader == InitReader /\ [][NextReader]_vars

\* the bracket times and every time-dependent field of the reader
Bracket == << time_last, time_next, zeta_last, zeta_next, u_last, u_next,
              wet_cells_last, wet_cells_next >>

\* the bracket the mediator holds for time index k in a run of direction dir
BracketOf(dir, wet, k) ==
    << LastIndex(dir, k) * FrameDt, NextIndex(dir, k) * FrameDt,
       ZetaFrame(LastIndex(dir, k)), ZetaFrame(NextIndex(dir, k)),
       UFrame(LastIndex(dir, k)), UFrame(NextIndex(dir, k)),
       IF wet THEN WetFrame(LastIndex(dir, k)) ELSE None,
       IF wet THEN WetFrame(NextIndex(dir, k)) ELSE None >>

\* tau = (t - t_last) / (t_next - t_last) lies outside [0, 1) in a forward run,
\* outside (0, 1] in a backward run
OutsideBracket ==
    LET tau == RDiv(RInt(time - time_last), RInt(time_next - time_last))
    IN  IF time_direction = 1
        THEN ~ (RLe(RInt(0), tau) /\ RLt(tau, RInt(1)))
        ELSE ~ (RLt(RInt(0), tau) /\ RLe(tau, RInt(1)))

\* C14: read_data(t) asks the mediator for a frame advance and then reads the
\* bracket times and all time-dependent fields again exactly when tau is outside
\* [0, 1) in a forward run or outside (0, 1] in a backward run; otherwise it
\* leaves the bracket times and the fields as they are.
C14_RereadIffStale ==
    [][ last'.op = "read_data"
          => IF OutsideBracket
             THEN /\ reads' = 1
                  /\ med_frame' = update_reading_frames(time)
                  /\ Bracket' = BracketOf(time_direction, has_is_wet, med_frame')
             ELSE /\ reads' = 0
                  /\ UNCHANGED << med_frame, Bracket >> ]_vars

\* a backward run has read again at tau = 0, the end of the bracket it held
C14_Witness ==
    /\ last.op = "read_data"
    /\ reads = 1
    /\ time_direction = 0 - 1
    /\ time = time_next
    /\ med_frame = 1

\* C15: one read_data call asks the mediator for new frames at most once, and
\* update() never does: an update() step leaves the time index, the bracket times
\* and every bracket frame as they were when it was entered.
C15_FramesFixedDuringUpdate ==
    /\ [](reads <= 1)
    /\ [][ last'.op = "update" => UNCHANGED << med_frame, Bracket, reads >> ]_vars

\* update() has moved a particle right after a read_data that fetched new frames
C15_Witness ==
    /\ last.op = "update"
    /\ reads = 1
    /\ med_frame = 1
    /\ \E i \in Particles : trace[i].flag = IN_DOMAIN /\ particle_smart_ptrs[i].xpos # 1

\* a bracket frame marks the host of p dry
HostDry(p) ==
    has_is_wet /\ (\/ wet_cells_last[p.host_horizontal_elem] = 0
                   \/ wet_cells_next[p.host_horizontal_elem] = 0)

\* C17: is_wet returns 0 exactly when the reader has wet/dry data and at least one
\* of the two bracket frames marks the particle's host dry, and 1 otherwise; the
\* call changes neither the particle nor the reader; and the flag does not arrest
\* motion: update() moves a particle whose host is dry like any other.
C17_IsWetFlagOnly ==
    /\ [][ last'.op = "is_wet"
             => /\ ret'[1].value =
                     (IF HostDry(particle_smart_ptrs[ret'[1].particle]) THEN 0 ELSE 1)
                /\ UNCHANGED << particle_smart_ptrs, particle_seed_smart_ptrs, med_frame,
                                Bracket, time_direction, has_is_wet, reads >> ]_vars
    /\ [][ last'.op = "update"
             => \A i \in Particles :
                  (particle_smart_ptrs[i].in_domain /\ HostDry(particle_smart_ptrs[i]))
                      => \/ ~ particle_smart_ptrs'[i].in_domain
                         \/ particle_smart_ptrs'[i].xpos # particle_smart_ptrs[i].xpos ]_vars

\* is_wet has returned 0 for a particle, and update() has then moved it inside the
\* dry element
C17_Witness ==
    /\ last.op = "update"
    /\ ret # None /\ ret[1].call = "is_wet" /\ ret[1].value = 0
    /\ particle_smart_ptrs[ret[1].particle].in_domain
    /\ particle_smart_ptrs[ret[1].particle].xpos = 0
    /\ HostDry(particle_smart_ptrs[ret[1].particle])
    /\ trace[ret[1].particle].flag = IN_DOMAIN

(***************************************************************************)
(* The generator of Gaussian deviates and the random walk models.          *)
(***************************************************************************)
RngPeriod == 4          \* the modelled stream repeats after RngPeriod deviates
MaxUpdates == 2         \* update() calls per run
Clocks == 0 .. 1        \* when a process starts

\* the seed gsl_rng_alloc gives a new generator
gsl_rng_default_seed == 0

\* r = gsl_rng_alloc(gsl_rng_mt19937), at import: the generator's seed and its
\* position in the stream of that seed
gsl_rng_alloc_seeded_from_clock(clock) == [seed |-> clock, n |-> 0]

gsl_rng_alloc(clock) == [seed |-> gsl_rng_default_seed, n |-> 0]

\* gauss(std) = gsl_ran_gaussian(r, std): the next deviate of the stream, scaled;
\* the module's generator r moves on
gauss(r, std) ==
    [deviate |-> std * (((r.seed + r.n) % RngPeriod) - 1),
     r |-> [r EXCEPT !.n = (r.n + 1) % RngPeriod]]

\* num_integrator.advect: a uniform current of one unit per step along the transect
advect(rd, t, p) == [host_err |-> 0, dx |-> 1, dz |-> 0]

\* vert_rand_walk_model.random_walk: one deviate, added to delta_X.z
vert_random_walk(in, r) ==
    [in |-> [in EXCEPT !.dz = in.dz + gauss(r, 1).deviate], r |-> gauss(r, 1).r]

\* horiz_rand_walk_model.random_walk: one deviate per axis, added to delta_X.x
\* and delta_X.y (the transect has no y)
horiz_random_walk(in, r) ==
    [in |-> [in EXCEPT !.dx = in.dx + gauss(r, 1).deviate], r |-> gauss(gauss(r, 1).r, 1).r]

\* update()'s calls of the configured models for one particle: the displacement
\* they sum up and the generator they leave
walk_horizontal(cfg, u) ==
    IF cfg.horiz_rand_walk_model THEN horiz_random_walk(u.in, u.r) ELSE u

random_walks_unconditional(cfg, in, r) ==
    horiz_random_walk(vert_random_walk(in, r).in, vert_random_walk(in, r).r)

random_walks(cfg, in, r) ==
    walk_horizontal(cfg, IF cfg.vert_rand_walk_model THEN vert_random_walk(in, r)
                         ELSE [in |-> in, r |-> r])

displacement(rd, cfg, t, p, r, adv) ==
    IF (~p.in_domain) \/ adv.host_err = OPEN_BDY_CROSSED
    THEN [in |-> adv, r |-> r]
    ELSE random_walks(cfg, adv, r)

\* the displacements of one update(), particle by particle in the order of
\* particle_ptrs, and the generator after them
RECURSIVE displacements(_, _, _, _, _, _, _)
displacements_next(rd, cfg, t, ps, i, acc, d) ==
    displacements(rd, cfg, t, ps, i + 1, d.r, Append(acc, d.in))

displacements(rd, cfg, t, ps, i, r, acc) ==
    IF i > Len(ps) THEN [ins |-> acc, r |-> r]
    ELSE displacements_next(rd, cfg, t, ps, i, acc,
             displacement(rd, cfg, t, ps[i], r,
                          IF cfg.num_integrator THEN advect(rd, t, ps[i]) ELSE NoInput))

(***************************************************************************)
(* Two executions of one configuration.  Each is a process of its own: it  *)
(* allocates its generator when it starts, seeds its particles and calls   *)
(* update(); the second may hold the particles in another order.           *)
(***************************************************************************)
Models ==
    { [num_integrator |-> a, vert_rand_walk_model |-> v, horiz_rand_walk_model |-> h] :
        a \in BOOLEAN, v \in BOOLEAN, h \in BOOLEAN }

Orders == { << 1, 2 >>, << 2, 1 >> }

RunSeedInputs ==
    { << SeedPoint(1, 1, z), SeedPoint(2, 3, 0 - 2) >> : z \in {0 - 1, 0 - 3} }
    \cup { << SeedPoint(1, 0, 0 - 2), SeedPoint(2, 1, 0 - 2) >> }

Permuted(ps, order) == [i \in 1 .. Len(ps) |-> ps[order[i]]]

StartRun(clock, ps) ==
    [clock |-> clock, r |-> gsl_rng_alloc(clock), particle_smart_ptrs |-> ps, updates |-> 0]

\* update(time) in a run: the generator and every particle move on
run_update(rd, cfg, t, run, d) ==
    [run EXCEPT !.r = d.r,
                !.particle_smart_ptrs = update(rd, cfg, t, run.particle_smart_ptrs, d.ins).ps,
                !.updates = run.updates + 1]

run_step(rd, cfg, t, run) ==
    run_update(rd, cfg, t, run,
               displacements(rd, cfg, t, run.particle_smart_ptrs, 1, run.r, << >>))

InitRuns ==
    /\ grid \in {GridOpen, GridLand}
    /\ \E m \in Models : config = CartRef @@ m
    /\ particle_seed_smart_ptrs = None
    /\ particle_smart_ptrs = << >>
    /\ time = 0
    /\ med_frame = 0
    /\ time_last = 0
    /\ time_next = FrameDt
    /\ zeta_last = ZetaFrame(0)
    /\ zeta_next = ZetaFrame(1)
    /\ last = [op |-> "other", raised |-> "none", created |-> FALSE]
    /\ trace = << >>
    /\ seed_input \in RunSeedInputs
    /\ InitStore
    /\ InitCalls
    /\ InitFrames(1, FALSE, 0)
    /\ time_manager = None
    /\ \E ca \in Clocks, cb \in Clocks, order \in Orders :
         runs = [a |-> StartRun(ca, create_seed(Reader, config, time, seed_input).seed),
                 b |-> StartRun(cb, Permuted(create_seed(Reader, config, time,
                                                         seed_input).seed, order)),
                 order |-> order]

\* both runs call update(time)
UpdateRuns ==
    /\ runs.a.updates < MaxUpdates
    /\ runs' = [runs EXCEPT !.a = run_step(Reader, config, time, runs.a),
                            !.b = run_step(Reader, config, time, runs.b)]
    /\ last' = [op |-> "update", raised |-> "none", created |-> FALSE]
    /\ UNCHANGED << grid, config, seed_input, particle_seed_smart_ptrs, particle_smart_ptrs,
                    time, med_frame, time_last, time_next, zeta_last, zeta_next, trace,
                    store_vars, call_vars, time_manager, frame_vars >>

NextRuns == UpdateRuns

SpecRuns == InitRuns /\ [][NextRuns]_vars

\* does particle i of the first run have the state of the same particle in the second?
SameParticle(i) ==
    runs.b.particle_smart_ptrs[runs.order[i]] = runs.a.particle_smart_ptrs[i]

RandomWalkConfigured == config.vert_rand_walk_model \/ config.horiz_rand_walk_model

MaxHalves == 6          \* the largest configured time, in half seconds

Seconds == { Rat(k, 2) : k \in 1 .. MaxHalves }

\* <int>x of a positive float: the fraction is dropped
int(x) == x.n \div x.d

\* pylag.numerics.get_global_time_step(config)
get_global_time_step(cfg) == cfg.time_step

\* is step an exact divisor of frequency?
ExactDivisor(step, frequency) == RDiv(frequency, step).d = 1

\* <int>frequency % <int>step != 0, which raises ZeroDivisionError for <int>step = 0
frequency_check(frequency, step) ==
    IF int(step) = 0 THEN "ZeroDivisionError"
    ELSE IF int(frequency) % int(step) # 0 THEN "RuntimeError"
    ELSE "none"

\* datetimes are seconds since an epoch, timedeltas seconds
RAdd(a, b) == Rat(a.n * b.d + b.n * a.d, a.d * b.d)

strptime(str) == RInt(str)

timedelta_hours(hours) == RMul(hours, RInt(3600))

timedelta_days(days) == RMul(days, RInt(86400))

\* the object __init__ leaves behind and the exception it ends with; the members
\* __init__ does not assign are None (objects) or 0.0 (C doubles)
TimeManager(cfg) ==
    IF frequency_check(cfg.output_frequency, get_global_time_step(cfg)) # "none"
    THEN [raised |-> frequency_check(cfg.output_frequency, get_global_time_step(cfg)),
          self |-> None]
    ELSE IF frequency_check(cfg.sync_frequency, get_global_time_step(cfg)) # "none"
    THEN [raised |-> frequency_check(cfg.sync_frequency, get_global_time_step(cfg)),
          self |-> None]
    ELSE [raised |-> "none",
          self |-> Some([config |-> cfg,
                         datetime_start_str |-> cfg.start_datetime,
                         number_of_particle_releases |-> cfg.number_of_particle_releases,
                         particle_release_interval_in_hours |->
                             cfg.particle_release_interval_in_hours,
                         time_step |-> get_global_time_step(cfg),
                         output_frequency |-> cfg.output_frequency,
                         sync_frequency |-> cfg.sync_frequency,
                         current_release |-> 0,
                         datetime_start |-> None,
                         datetime_end |-> None,
                         time_start |-> RInt(0),
                         time_end |-> RInt(0),
                         time |-> RInt(0)])]

\* a single release of one minute
SingleRelease ==
    [start_datetime |-> 0, end_datetime |-> 60, duration_in_days |-> RInt(0),
     number_of_particle_releases |-> 1, particle_release_interval_in_hours |-> RInt(0)]

InitTime ==
    /\ grid = GridOpen
    /\ \E s \in Seconds, o \in Seconds, y \in Seconds :
         config = [time_step |-> s, output_frequency |-> o, sync_frequency |-> y]
                    @@ SingleRelease
    /\ seed_input = << >>
    /\ particle_seed_smart_ptrs = None
    /\ particle_smart_ptrs = << >>
    /\ time = 0
    /\ med_frame = 0
    /\ time_last = 0
    /\ time_next = FrameDt
    /\ zeta_last = ZetaFrame(0)
    /\ zeta_next = ZetaFrame(1)
    /\ last = [op |-> "other", raised |-> "none", created |-> FALSE]
    /\ trace = << >>
    /\ InitStore
    /\ InitCalls
    /\ InitProcess
    /\ InitFrames(1, FALSE, 0)

\* time_manager = TimeManager(config)
NewTimeManager ==
    /\ last.op # "TimeManager"
    /\ time_manager' = TimeManager(config).self
    /\ last' = [op |-> "TimeManager", raised |-> TimeManager(config).raised, created |-> FALSE]
    /\ UNCHANGED << grid, config, seed_input, particle_seed_smart_ptrs, particle_smart_ptrs,
                    time, med_frame, time_last, time_next, zeta_last, zeta_next, trace,
                    store_vars, call_vars, runs, frame_vars >>

NextTime == NewTimeManager

SpecTime == InitTime /\ [][NextTime]_vars

DividesBoth ==
    /\ ExactDivisor(config.time_step, config.output_frequency)
    /\ ExactDivisor(config.time_step, config.sync_frequency)

\* C20: the construction of a TimeManager ends with an error exactly when the
\* time step is not an exact divisor of the output frequency or of the sync
\* frequency, for integer and non-integer time steps alike
C20_ErrorIffNotDivisor ==
    (last.op = "TimeManager") =>
        ((last.raised # "none") <=> ~DividesBoth)

(***************************************************************************)
(* FVCOMOPTModel.get_diagnostics.                                          *)
(***************************************************************************)
\* self._nv[i, host_element]: a negative index counts from the end of the axis, and
\* an index that is then still outside it raises IndexError
in_bounds(n, i) == (IF i < 0 THEN i + n ELSE i) \in 0 .. (n - 1)

NoDiags == [xpos |-> << >>, zpos |-> << >>, host_horizontal_elem |-> << >>,
            h |-> << >>, zeta |-> << >>]

\* one pass of the loop: the particle's entries are appended, h and zeta last
diags_append(rd, t, p, diags) ==
    [xpos |-> Append(diags.xpos, p.xpos),
     zpos |-> Append(diags.zpos, p.zpos),
     host_horizontal_elem |-> Append(diags.host_horizontal_elem, p.host_horizontal_elem),
     h |-> Append(diags.h, get_zmin(rd, t, p)),
     zeta |-> Append(diags.zeta, get_zmax(rd, t, p))]

\* for particle_ptr in self.particle_ptrs: get_zmin raises for a host element
\* outside the grid's arrays, and get_diagnostics returns nothing
RECURSIVE diags_loop(_, _, _, _, _)
diags_loop(rd, t, ps, i, diags) ==
    IF i > Len(ps) THEN [raised |-> "none", diags |-> Some(diags)]
    ELSE IF in_bounds(n_elems, ps[i].host_horizontal_elem)
    THEN diags_loop(rd, t, ps, i + 1, diags_append(rd, t, ps[i], diags))
    ELSE [raised |-> "IndexError", diags |-> None]

get_diagnostics(rd, t, ps) == diags_loop(rd, t, ps, 1, NoDiags)

\* diags = get_diagnostics(time)
GetDiagnostics ==
    /\ last.op # "get_diagnostics"
    /\ Range(particle_ptrs) \subseteq DOMAIN heap
    /\ ret' = Some([call |-> "get_diagnostics",
                    value |-> get_diagnostics(Reader, time, Deref(heap, particle_ptrs)).diags])
    /\ last' = [op |-> "get_diagnostics",
                raised |-> get_diagnostics(Reader, time, Deref(heap, particle_ptrs)).raised,
                created |-> FALSE]
    /\ UNCHANGED << grid, config, seed_input, particle_seed_smart_ptrs, particle_smart_ptrs,
                    time, med_frame, time_last, time_next, zeta_last, zeta_next, trace,
                    store_vars, process_vars, frame_vars >>

NextDiagnostics == SeedAt \/ UpdateAt \/ GetDiagnostics

SpecDiagnostics == InitStorage /\ [][NextDiagnostics]_vars

Diagnostics == {"xpos", "zpos", "host_horizontal_elem", "h", "zeta"}

GroupIds(h, ptrs) == [i \in 1 .. Len(ptrs) |-> h[ptrs[i]].group_id]

\* C21: update() leaves the active set's particles and their order as they are, and
\* get_diagnostics returns for every diagnostic one entry per particle of the
\* active set, in index order, whether or not the particle is in the domain
C21_OneEntryPerParticle ==
    /\ [](last.op = "get_diagnostics" =>
            /\ last.raised = "none"
            /\ \A d \in Diagnostics : Len(ret[1].value[1][d]) = Len(particle_ptrs)
            /\ \A i \in 1 .. Len(particle_ptrs) :
                 /\ ret[1].value[1].xpos[i] = heap[particle_ptrs[i]].xpos
                 /\ ret[1].value[1].zpos[i] = heap[particle_ptrs[i]].zpos)
    /\ [][last'.op = "update" =>
            /\ particle_ptrs' = particle_ptrs
            /\ GroupIds(heap', particle_ptrs') = GroupIds(heap, particle_ptrs)]_vars

(***************************************************************************)
(* set_vertical_grid_vars on its own: one particle in the grid, placed     *)
(* vertically again after every change of its depth.                       *)
(***************************************************************************)
\* the depths a caller may hand over: the water column and a little beyond
Depths == (0 - 5) .. 3

InitVertical ==
    /\ grid \in {GridOpen, GridGap}
    /\ config = CartRef
    /\ seed_input = << >>
    /\ particle_seed_smart_ptrs = None
    /\ time \in 0 .. (FrameDt - 1)
    /\ med_frame = 0
    /\ time_last = 0
    /\ time_next = FrameDt
    /\ zeta_last = ZetaFrame(0)
    /\ zeta_next = ZetaFrame(1)
    /\ last = [op |-> "other", raised |-> "none", created |-> FALSE]
    /\ trace = << >>
    /\ \E x \in 0 .. xmax, z \in Depths :
         \E e \in { h \in 0 .. (n_elems - 1) : Contains(h, x) } :
           particle_smart_ptrs =
               << [set_local_coordinates(ParticleSmartPtr(1, x, 0, e, TRUE))
                      EXCEPT !.zpos = z] >>
    /\ InitStore
    /\ InitCalls
    /\ InitProcess
    /\ InitFrames(1, FALSE, 0)

\* flag = set_vertical_grid_vars(time, particle)
SetVerticalGridVars ==
    /\ last.op # "set_vertical_grid_vars"
    /\ particle_smart_ptrs' =
           << set_vertical_grid_vars(Reader, time, particle_smart_ptrs[1]).p >>
    /\ ret' = Some([call |-> "set_vertical_grid_vars",
                    particle |-> particle_smart_ptrs[1],
                    value |-> set_vertical_grid_vars(Reader, time, particle_smart_ptrs[1]).flag])
    /\ last' = [op |-> "set_vertical_grid_vars", raised |-> "none", created |-> FALSE]
    /\ UNCHANGED << grid, config, seed_input, particle_seed_smart_ptrs, time, med_frame,
                    time_last, time_next, zeta_last, zeta_next, trace, store_vars,
                    process_vars, frame_vars >>

\* the caller gives the particle a new depth
SetDepth ==
    /\ last.op = "set_vertical_grid_vars"
    /\ \E z \in Depths :
         particle_smart_ptrs' = << [particle_smart_ptrs[1] EXCEPT !.zpos = z] >>
    /\ ret' = None
    /\ last' = [op |-> "other", raised |-> "none", created |-> FALSE]
    /\ UNCHANGED << grid, config, seed_input, particle_seed_smart_ptrs, time, med_frame,
                    time_last, time_next, zeta_last, zeta_next, trace, store_vars,
                    process_vars, frame_vars >>

NextVertical == SetVerticalGridVars \/ SetDepth

SpecVertical == InitVertical /\ [][NextVertical]_vars

\* the particle set_vertical_grid_vars has just returned for, and what it returned
Placed == last.op = "set_vertical_grid_vars"
PlacedParticle == particle_smart_ptrs[1]
PlacedFlag == ret[1].value
PlacedSigma ==
    cartesian_to_sigma_coords(PlacedParticle.zpos, get_zmin(Reader, time, PlacedParticle),
                              get_zmax(Reader, time, PlacedParticle))
LevelSigma(k) ==
    interp_on_sigma_level(Reader, PlacedParticle.phi, PlacedParticle.host_horizontal_elem, k)
LayerSigma(k) ==
    interp_on_sigma_layer(Reader, PlacedParticle.phi, PlacedParticle.host_horizontal_elem, k)
Brackets(k) == RLe(LevelSigma(k + 1), PlacedSigma) /\ RLe(PlacedSigma, LevelSigma(k))
InUnitInterval(q) == RLe(RInt(0), q) /\ RLe(q, RInt(1))
LevelsSpanColumn == grid.bottom = 0 - SigDen

\* C22: for sigma in [-1, 0] on a grid whose levels run from 0 to -1 the call
\* returns IN_DOMAIN, k_layer is the first layer whose levels bracket sigma (on
\* an interior level: the layer above) and omega_interfaces is in [0, 1]; the
\* call returns BDY_ERROR exactly when no layer brackets sigma
C22_FirstBracketingLayer ==
    Placed =>
        /\ (LevelsSpanColumn /\ RLe(RInt(0 - 1), PlacedSigma) /\ RLe(PlacedSigma, RInt(0)))
             => /\ PlacedFlag = IN_DOMAIN
                /\ PlacedParticle.k_layer \in 0 .. (n_siglay - 1)
                /\ Brackets(PlacedParticle.k_layer)
                /\ \A j \in 0 .. (n_siglay - 1) : Brackets(j) => PlacedParticle.k_layer <= j
                /\ InUnitInterval(PlacedParticle.omega_interfaces)
        /\ (PlacedFlag = BDY_ERROR) <=> (\A k \in 0 .. (n_siglay - 1) : ~Brackets(k))
        /\ PlacedFlag \in {IN_DOMAIN, BDY_ERROR}

\* a particle exactly on the interior level is placed in the layer above it
C22_Witness ==
    /\ Placed /\ LevelsSpanColumn
    /\ PlacedFlag = IN_DOMAIN
    /\ PlacedSigma = LevelSigma(1)
    /\ Brackets(0) /\ Brackets(1)
    /\ PlacedParticle.k_layer = 0
    /\ PlacedParticle.omega_interfaces = RInt(0)

\* is the placed particle in the upper half of the top layer or in the lower half
\* of the bottom layer, the midpoints included?
InBoundaryHalf ==
    \/ PlacedParticle.k_layer = 0
         /\ RLe(LayerSigma(0), PlacedSigma)
    \/ PlacedParticle.k_layer = n_siglay - 1
         /\ RLe(PlacedSigma, LayerSigma(n_siglay - 1))

\* C23: in_vertical_boundary_layer is set exactly for a particle in the top layer
\* at or above its midpoint or in the bottom layer at or below its midpoint; in
\* every other IN_DOMAIN outcome omega_layers is the linear fraction of sigma
\* between the midpoints of k_lower_layer and k_upper_layer and lies in [0, 1]
C23_BoundaryLayerFlag ==
    (Placed /\ PlacedFlag = IN_DOMAIN) =>
        /\ PlacedParticle.in_vertical_boundary_layer = InBoundaryHalf
        /\ (~InBoundaryHalf) =>
             /\ PlacedParticle.omega_layers =
                    get_linear_fraction(PlacedSigma, LayerSigma(PlacedParticle.k_lower_layer),
                                        LayerSigma(PlacedParticle.k_upper_layer))
             /\ InUnitInterval(PlacedParticle.omega_layers)

\* a particle exactly on the midpoint of the top layer, and one between the midpoints
C23_Witness ==
    /\ Placed /\ PlacedFlag = IN_DOMAIN
    /\ PlacedParticle.k_layer = 0
    /\ PlacedSigma = LayerSigma(0)
    /\ PlacedParticle.in_vertical_boundary_layer

C23_WitnessBetween ==
    /\ Placed /\ PlacedFlag = IN_DOMAIN
    /\ ~PlacedParticle.in_vertical_boundary_layer
    /\ PlacedParticle.k_layer = 1
    /\ RLt(RInt(0), PlacedParticle.omega_layers) /\ RLt(PlacedParticle.omega_layers, RInt(1))

\* the particle as it was handed to the call that has just returned
PlacedBefore == ret[1].particle

SameOn(fields, p, q) == \A f \in fields : p[f] = q[f]

\* C29: set_vertical_grid_vars changes no field of the particle when it returns
\* BDY_ERROR; when it places the particle in a boundary layer it leaves
\* k_lower_layer, k_upper_layer and omega_layers as they were; and it never changes
\* the position, the host element, phi or in_domain
C29_FieldsLeftAlone ==
    Placed =>
        /\ SameOn({"group_id", "xpos", "ypos", "zpos", "phi", "host_horizontal_elem",
                   "in_domain", "is_beached"}, PlacedParticle, PlacedBefore)
        /\ (PlacedFlag = BDY_ERROR) => PlacedParticle = PlacedBefore
        /\ (PlacedFlag = IN_DOMAIN /\ PlacedParticle.in_vertical_boundary_layer)
             => SameOn({"k_lower_layer", "k_upper_layer", "omega_layers"},
                       PlacedParticle, PlacedBefore)

\* a particle placed between the midpoints before enters a boundary layer and keeps
\* the bounding layers and omega_layers of the earlier placement
C29_Witness ==
    /\ Placed /\ PlacedFlag = IN_DOMAIN
    /\ PlacedParticle.in_vertical_boundary_layer
    /\ ~PlacedBefore.in_vertical_boundary_layer
    /\ PlacedBefore.k_lower_layer = 1
    /\ PlacedParticle.k_lower_layer = 1 /\ PlacedParticle.k_upper_layer = 0
    /\ PlacedParticle.omega_layers = PlacedBefore.omega_layers
    /\ PlacedParticle.omega_interfaces # PlacedBefore.omega_interfaces

\* a particle placed before is handed over outside every layer
C29_WitnessError ==
    /\ Placed /\ PlacedFlag = BDY_ERROR
    /\ PlacedBefore.k_layer # DEFAULT

(***************************************************************************)
(* The layer indices of set_vertical_grid_vars and the levels read by      *)
(* get_vertical_eddy_diffusivity_derivative, for grids of any number of    *)
(* sigma layers.                                                           *)
(***************************************************************************)
MaxLayers == 6

\* where sigma lies relative to the midpoint of the host layer
Sides == {"above", "at", "below"}
at_or_above(side) == side \in {"above", "at"}
at_or_below(side) == side \in {"below", "at"}

\* what set_vertical_grid_vars writes once host layer k is found
bounding_layers(n, k, side) ==
    IF in_boundary_layer(n, k, at_or_above(side), at_or_below(side))
    THEN [k_layer |-> k, in_vertical_boundary_layer |-> TRUE]
    ELSE [k_layer |-> k, in_vertical_boundary_layer |-> FALSE,
          k_upper_layer |-> upper_layer(k, at_or_above(side)),
          k_lower_layer |-> lower_layer(k, at_or_above(side))]

\* the levels get_vertical_eddy_diffusivity_derivative reads for k_layer
levels_read(n, k_layer) ==
    IF k_layer = 0 THEN {k_layer, k_layer + 1, k_layer + 2}
    ELSE IF k_layer = n - 1 THEN {k_layer - 1, k_layer, k_layer + 1}
    ELSE {k_layer - 1, k_layer, k_layer + 1, k_layer + 2}

\* it raises when a level is outside the n + 1 levels of the arrays
get_vertical_eddy_diffusivity_derivative(n, k_layer) ==
    [levels |-> levels_read(n, k_layer),
     raised |-> IF \A l \in levels_read(n, k_layer) : in_bounds(n + 1, l)
                THEN "none" ELSE "IndexError"]

\* a grid of n layers and a particle whose host layer was found to be k
InitLayers ==
    /\ \E n \in 1 .. MaxLayers : grid = [n_siglay |-> n]
    /\ config = CartRef
    /\ seed_input = << >>
    /\ particle_seed_smart_ptrs = None
    /\ \E k \in 0 .. (grid.n_siglay - 1), side \in Sides :
         particle_smart_ptrs = << [k_layer |-> k, side |-> side] >>
    /\ time = 0
    /\ med_frame = 0
    /\ time_last = 0
    /\ time_next = FrameDt
    /\ zeta_last = ZetaFrame(0)
    /\ zeta_next = ZetaFrame(1)
    /\ last = [op |-> "other", raised |-> "none", created |-> FALSE]
    /\ trace = << >>
    /\ InitStore
    /\ InitCalls
    /\ InitProcess
    /\ InitFrames(1, FALSE, 0)

\* set_vertical_grid_vars from the point where the host layer is known
SetBoundingLayers ==
    /\ ret' = Some([call |-> "set_vertical_grid_vars",
                    value |-> bounding_layers(grid.n_siglay, particle_smart_ptrs[1].k_layer,
                                              particle_smart_ptrs[1].side)])
    /\ last' = [op |-> "set_vertical_grid_vars", raised |-> "none", created |-> FALSE]
    /\ UNCHANGED << grid, config, seed_input, particle_seed_smart_ptrs, particle_smart_ptrs,
                    time, med_frame, time_last, time_next, zeta_last, zeta_next, trace,
                    store_vars, process_vars, frame_vars >>

\* k_prime = get_vertical_eddy_diffusivity_derivative(time, particle)
GetVerticalEddyDiffusivityDerivative ==
    /\ ret' = Some([call |-> "get_vertical_eddy_diffusivity_derivative",
                    value |-> get_vertical_eddy_diffusivity_derivative(
                                  grid.n_siglay, particle_smart_ptrs[1].k_layer).levels])
    /\ last' = [op |-> "get_vertical_eddy_diffusivity_derivative",
                raised |-> get_vertical_eddy_diffusivity_derivative(
                               grid.n_siglay, particle_smart_ptrs[1].k_layer).raised,
                created |-> FALSE]
    /\ UNCHANGED << grid, config, seed_input, particle_seed_smart_ptrs, particle_smart_ptrs,
                    time, med_frame, time_last, time_next, zeta_last, zeta_next, trace,
                    store_vars, process_vars, frame_vars >>

NextLayers == SetBoundingLayers \/ GetVerticalEddyDiffusivityDerivative

SpecLayers == InitLayers /\ [][NextLayers]_vars

\* C27: whenever the particle is not put in a boundary layer, k_upper_layer >= 0,
\* k_lower_layer = k_upper_layer + 1 <= n_siglay - 1 and k_layer is one of the
\* two, for every number of layers and every host layer
C27_BoundingLayersInRange ==
    (last.op = "set_vertical_grid_vars" /\ ~ret[1].value.in_vertical_boundary_layer) =>
        /\ 0 <= ret[1].value.k_upper_layer
        /\ ret[1].value.k_lower_layer = ret[1].value.k_upper_layer + 1
        /\ ret[1].value.k_lower_layer <= grid.n_siglay - 1
        /\ ret[1].value.k_layer \in {ret[1].value.k_upper_layer, ret[1].value.k_lower_layer}

\* the bottom layer of a grid of several layers, above its midpoint
C27_Witness ==
    /\ last.op = "set_vertical_grid_vars"
    /\ grid.n_siglay > 2
    /\ particle_smart_ptrs[1].k_layer = grid.n_siglay - 1
    /\ ~ret[1].value.in_vertical_boundary_layer
    /\ ret[1].value.k_lower_layer = grid.n_siglay - 1

\* C28: get_vertical_eddy_diffusivity_derivative reads levels k, k+1, k+2 in the
\* top layer, k-1, k, k+1 in the bottom layer and k-1..k+2 otherwise, and every
\* level it reads is one of the n_siglay + 1 levels, for every number of layers
C28_LevelsInRange ==
    (last.op = "get_vertical_eddy_diffusivity_derivative") =>
        /\ ret[1].value \subseteq 0 .. grid.n_siglay
        /\ last.raised = "none"
        /\ LET k == particle_smart_ptrs[1].k_layer
           IN  ret[1].value = IF k = 0 THEN {k, k + 1, k + 2}
                              ELSE IF k = grid.n_siglay - 1 THEN {k - 1, k, k + 1}
                              ELSE (k - 1) .. (k + 2)

(***************************************************************************)
(* The end of update()'s step for a data reader whose find_host may return *)
(* any flag (update() takes the flag from its DataReader as it comes).     *)
(***************************************************************************)
\* the flags a reader may return once the land loop is over
FlagsAfterLandLoop == {IN_DOMAIN, OPEN_BDY_CROSSED, BDY_ERROR, DEFAULT, 1}

InitFlags ==
    /\ grid = GridOpen
    /\ config = CartRef
    /\ seed_input = << >>
    /\ particle_seed_smart_ptrs = None
    /\ time = 0
    /\ med_frame = 0
    /\ time_last = 0
    /\ time_next = FrameDt
    /\ zeta_last = ZetaFrame(0)
    /\ zeta_next = ZetaFrame(1)
    /\ last = [op |-> "other", raised |-> "none", created |-> FALSE]
    /\ InitStore
    /\ InitCalls
    /\ InitProcess
    /\ InitFrames(1, FALSE, 0)
    /\ \E p \in Located(Reader, time) : particle_smart_ptrs = << p >>
    /\ trace = << Idle >>

\* update(time) for one particle in the domain, from the flag and host that
\* find_host and the land loop leave for the proposed position
UpdateFromFlag ==
    /\ last.raised = "none"
    /\ particle_smart_ptrs[1].in_domain
    /\ \E flag \in FlagsAfterLandLoop, xpos \in 0 .. xmax, dz \in {0 - 1, 0} :
         \E host \in { e \in 0 .. (n_elems - 1) : Contains(e, xpos) } :
           /\ ret' = Some([call |-> "find_host", particle |-> particle_smart_ptrs[1],
                           value |-> [xpos |-> xpos, flag |-> flag, host |-> host, n |-> 0]])
           /\ particle_smart_ptrs' =
                  << end_step(Reader, config, time, particle_smart_ptrs[1],
                              [host_err |-> 0, dx |-> xpos - particle_smart_ptrs[1].xpos,
                               dz |-> dz],
                              particle_smart_ptrs[1].zpos + dz,
                              [xpos |-> xpos, flag |-> flag, host |-> host, n |-> 0]).p >>
           /\ trace' =
                  << end_step(Reader, config, time, particle_smart_ptrs[1],
                              [host_err |-> 0, dx |-> xpos - particle_smart_ptrs[1].xpos,
                               dz |-> dz],
                              particle_smart_ptrs[1].zpos + dz,
                              [xpos |-> xpos, flag |-> flag, host |-> host, n |-> 0]).tr >>
           /\ last' =
                  [op |-> "update",
                   raised |-> end_step(Reader, config, time, particle_smart_ptrs[1],
                                  [host_err |-> 0, dx |-> xpos - particle_smart_ptrs[1].xpos,
                                   dz |-> dz],
                                  particle_smart_ptrs[1].zpos + dz,
                                  [xpos |-> xpos, flag |-> flag, host |-> host, n |-> 0]).raised,
                   created |-> FALSE]
    /\ UNCHANGED << grid, config, seed_input, particle_seed_smart_ptrs, time, med_frame,
                    time_last, time_next, zeta_last, zeta_next, store_vars, process_vars,
                    frame_vars >>

NextFlags == UpdateFromFlag

SpecFlags == InitFlags /\ [][NextFlags]_vars

\* C24: when the flag after the land loop is none of IN_DOMAIN, LAND and OPEN,
\* update() raises and the particle's position, host element and in_domain flag
\* are as they were before the step
C24_UnrecognisedFlagRaises ==
    (last.op = "update"
       /\ ret[1].value.flag \notin {IN_DOMAIN, LAND_BDY_CROSSED, OPEN_BDY_CROSSED}) =>
        /\ last.raised = "ValueError"
        /\ SameOn({"xpos", "ypos", "zpos", "host_horizontal_elem", "in_domain"},
                  particle_smart_ptrs[1], ret[1].particle)

\* the reader reported BDY_ERROR for a position in another element
C24_Witness ==
    /\ last.op = "update"
    /\ ret[1].value.flag = BDY_ERROR
    /\ ret[1].value.xpos # ret[1].particle.xpos
    /\ ret[1].value.host # ret[1].particle.host_horizontal_elem
    /\ last.raised = "ValueError"
    /\ particle_smart_ptrs[1] = ret[1].particle

(***************************************************************************)
(* seed() after a seeding error of _create_seed.                           *)
(***************************************************************************)
SeedingFailed == last.op = "seed" /\ last.raised = "ValueError"

\* C30: after _create_seed raised part-way through the input list the model has
\* no seed set (particle_seed_smart_ptrs is None), and the next seed() call
\* creates the seed set again instead of activating the partial one
C30_NoSeedSetAfterSeedingError ==
    /\ [](SeedingFailed => particle_seed_smart_ptrs = None)
    /\ [][(SeedingFailed /\ last'.op = "seed") => last'.created]_vars

(***************************************************************************)
(* TimeManager.new_simulation, update_current_time and                     *)
(* write_output_to_file, driven by the outer loops of a run.               *)
(***************************************************************************)
MaxReleases == 2        \* the largest number of particle releases
RunSeconds == 10        \* the length of a release, in seconds

\* the release starts and ends at the same time, or ends RunSeconds before or
\* after it starts
Spans == {0 - RunSeconds, 0, RunSeconds}

\* _set_time_vars(): the exception it ends with and the object it leaves behind
release_start(self) ==
    RAdd(strptime(self.datetime_start_str),
         RMul(timedelta_hours(self.particle_release_interval_in_hours),
              RInt(self.current_release)))

release_end(self) ==
    IF self.number_of_particle_releases = 1
    THEN strptime(self.config.end_datetime)
    ELSE RAdd(release_start(self), timedelta_days(self.config.duration_in_days))

set_time_vars(self) ==
    IF RLe(release_end(self), release_start(self))
    THEN [raised |-> "ValueError",
          self |-> [self EXCEPT !.datetime_start = Some(release_start(self)),
                                !.datetime_end = Some(release_end(self))]]
    ELSE [raised |-> "none",
          self |-> [self EXCEPT !.datetime_start = Some(release_start(self)),
                                !.datetime_end = Some(release_end(self)),
                                !.time_start = RInt(0),
                                !.time_end = RSub(release_end(self), release_start(self)),
                                !.time = RInt(0)]]

\* the same with the test current_release > number_of_particle_releases
new_simulation_one_more(self) ==
    IF self.current_release > self.number_of_particle_releases
    THEN [raised |-> "none", value |-> Some(FALSE), self |-> self]
    ELSE IF set_time_vars(self).raised # "none"
    THEN [raised |-> set_time_vars(self).raised, value |-> None,
          self |-> set_time_vars(self).self]
    ELSE [raised |-> "none", value |-> Some(TRUE),
          self |-> [set_time_vars(self).self EXCEPT !.current_release = @ + 1]]

\* new_simulation(): the exception, the value returned and the object afterwards
new_simulation(self) ==
    IF self.current_release >= self.number_of_particle_releases
    THEN [raised |-> "none", value |-> Some(FALSE), self |-> self]
    ELSE IF set_time_vars(self).raised # "none"
    THEN [raised |-> set_time_vars(self).raised, value |-> None,
          self |-> set_time_vars(self).self]
    ELSE [raised |-> "none", value |-> Some(TRUE),
          self |-> [set_time_vars(self).self EXCEPT !.current_release = @ + 1]]

update_current_time(self) == [self EXCEPT !.time = RAdd(self.time, self.time_step)]

\* write_output_to_file(): <int>time_diff % <int>output_frequency == 0
write_output_to_file(self) ==
    IF int(self.output_frequency) = 0
    THEN [raised |-> "ZeroDivisionError", value |-> None]
    ELSE [raised |-> "none",
          value |-> Some(IF int(RSub(self.time, self.time_start))
                               % int(self.output_frequency) = 0
                         THEN 1 ELSE 0)]

ClockConfigs ==
    { [time_step |-> s, output_frequency |-> o, sync_frequency |-> o,
       start_datetime |-> 0, end_datetime |-> span,
       duration_in_days |-> Rat(span, 86400),
       number_of_particle_releases |-> n,
       particle_release_interval_in_hours |-> RInt(h)] :
        s \in Seconds, o \in Seconds, n \in 0 .. MaxReleases, h \in 0 .. 1,
        span \in Spans }

InitClock ==
    /\ grid = GridOpen
    /\ config \in { c \in ClockConfigs : TimeManager(c).raised = "none" }
    /\ seed_input = << >>
    /\ particle_seed_smart_ptrs = None
    /\ particle_smart_ptrs = << >>
    /\ time = 0
    /\ med_frame = 0
    /\ time_last = 0
    /\ time_next = FrameDt
    /\ zeta_last = ZetaFrame(0)
    /\ zeta_next = ZetaFrame(1)
    /\ last = [op |-> "TimeManager", raised |-> "none", created |-> FALSE]
    /\ trace = << >>
    /\ InitStore
    /\ InitCalls
    /\ runs = None
    /\ time_manager = TimeManager(config).self
    /\ InitFrames(1, FALSE, 0)

\* time_manager.new_simulation(), the test of the loop over the releases
NewSimulation ==
    /\ ret' = Some([call |-> "new_simulation", before |-> time_manager[1],
                    value |-> new_simulation(time_manager[1]).value])
    /\ time_manager' = Some(new_simulation(time_manager[1]).self)
    /\ last' = [op |-> "new_simulation", raised |-> new_simulation(time_manager[1]).raised,
                created |-> FALSE]
    /\ UNCHANGED << grid, config, seed_input, particle_seed_smart_ptrs, particle_smart_ptrs,
                    time, med_frame, time_last, time_next, zeta_last, zeta_next, trace,
                    store_vars, runs, frame_vars >>

\* time_manager.update_current_time(), the last statement of the time loop's body
\* (while time_manager.time < time_manager.time_end)
UpdateClock ==
    /\ RLt(time_manager[1].time, time_manager[1].time_end)
    /\ ret' = Some([call |-> "update_current_time", before |-> time_manager[1],
                    value |-> None])
    /\ time_manager' = Some(update_current_time(time_manager[1]))
    /\ last' = [op |-> "update_current_time", raised |-> "none", created |-> FALSE]
    /\ UNCHANGED << grid, config, seed_input, particle_seed_smart_ptrs, particle_smart_ptrs,
                    time, med_frame, time_last, time_next, zeta_last, zeta_next, trace,
                    store_vars, runs, frame_vars >>

\* time_manager.write_output_to_file(), asked once at each time of a release
WriteOutputToFile ==
    /\ time_manager[1].current_release > 0
    /\ last.op # "write_output_to_file"
    /\ ret' = Some([call |-> "write_output_to_file", before |-> time_manager[1],
                    value |-> write_output_to_file(time_manager[1]).value])
    /\ last' = [op |-> "write_output_to_file",
                raised |-> write_output_to_file(time_manager[1]).raised, created |-> FALSE]
    /\ UNCHANGED << grid, config, seed_input, particle_seed_smart_ptrs, particle_smart_ptrs,
                    time, med_frame, time_last, time_next, zeta_last, zeta_next, trace,
                    store_vars, process_vars, frame_vars >>

NextClock == NewSimulation \/ UpdateClock \/ WriteOutputToFile

SpecClock == InitClock /\ [][NextClock]_vars

Called(op) == last.op = op /\ ret # None /\ ret[1].call = op

\* the start of release k
ReleaseStart(k) ==
    RAdd(RInt(config.start_datetime),
         RMul(RInt(k), RMul(config.particle_release_interval_in_hours, RInt(3600))))

\* the end of release k
ReleaseEnd(k) ==
    IF config.number_of_particle_releases = 1
    THEN RInt(config.end_datetime)
    ELSE RAdd(ReleaseStart(k), RMul(config.duration_in_days, RInt(86400)))

\* C25: a new_simulation() call that does not end with the error for an end time
\* not after the start returns True while fewer than N releases were started
\* and False afterwards; a True call adds one to current_release, sets the
\* time to 0 and starts release k = current_release before the call at
\* start_datetime + k * interval; a False call changes nothing; the error
\* comes exactly for a release that ends no later than it starts and leaves the
\* counter and the time alone; current_release never exceeds N
C25_ReleasesCounted ==
    /\ time_manager[1].current_release <= config.number_of_particle_releases
    /\ Called("new_simulation") =>
         /\ last.raised \in {"none", "ValueError"}
         /\ (last.raised = "ValueError") <=>
                /\ ret[1].before.current_release < config.number_of_particle_releases
                /\ RLe(ReleaseEnd(ret[1].before.current_release),
                       ReleaseStart(ret[1].before.current_release))
         /\ (last.raised = "ValueError") =>
                /\ ret[1].value = None
                /\ time_manager[1].current_release = ret[1].before.current_release
                /\ time_manager[1].time = ret[1].before.time
         /\ (last.raised = "none") =>
                /\ ret[1].value =
                       Some(ret[1].before.current_release < config.number_of_particle_releases)
                /\ (ret[1].value = Some(TRUE)) =>
                       /\ time_manager[1].current_release = ret[1].before.current_release + 1
                       /\ time_manager[1].time = RInt(0)
                       /\ time_manager[1].datetime_start =
                              Some(ReleaseStart(ret[1].before.current_release))
                /\ (ret[1].value = Some(FALSE)) => time_manager[1] = ret[1].before

\* the second of two releases an hour apart was started while the first was
\* under way
C25_Witness ==
    /\ Called("new_simulation")
    /\ ret[1].value = Some(TRUE)
    /\ ret[1].before.current_release = 1
    /\ RLt(RInt(0), ret[1].before.time)
    /\ time_manager[1].current_release = 2
    /\ time_manager[1].datetime_start = Some(RInt(3600))
    /\ time_manager[1].time = RInt(0)

\* the call after the last release returned False
C25_WitnessFalse ==
    /\ Called("new_simulation")
    /\ ret[1].value = Some(FALSE)
    /\ ret[1].before.current_release = MaxReleases

\* is the elapsed time of the release a whole multiple of the output frequency?
OutputDue(self) == RDiv(RSub(self.time, self.time_start), self.output_frequency).d = 1

\* the time loop of a release: the time grows by exactly the (positive) time
\* step, the release ends after it starts, and the loop stops within one step
\* of the end
TimeLoopAdvances ==
    /\ Called("update_current_time") =>
         /\ time_manager[1].time = RAdd(ret[1].before.time, config.time_step)
         /\ RLt(ret[1].before.time, time_manager[1].time)
         /\ RLt(time_manager[1].time, RAdd(time_manager[1].time_end, config.time_step))
    /\ (Called("new_simulation") /\ ret[1].value = Some(TRUE)) =>
         /\ time_manager[1].time = RInt(0)
         /\ RLt(RInt(0), time_manager[1].time_end)
    /\ (Called("new_simulation") /\ last.raised = "none"
          /\ ret[1].before.current_release < config.number_of_particle_releases) =>
         RLt(ReleaseStart(ret[1].before.current_release),
             ReleaseEnd(ret[1].before.current_release))

\* write_output_to_file() answers 1 exactly when the elapsed time is a multiple
\* of the output frequency (time 0 included)
OutputWhenDue ==
    Called("write_output_to_file") =>
        /\ last.raised = "none"
        /\ ret[1].value = Some(IF OutputDue(ret[1].before) THEN 1 ELSE 0)

\* C26: within a release the time starts at 0, grows by exactly time_step with
\* each update_current_time() and so passes time_end > 0 after finitely many
\* steps, an end not after the start being rejected; write_output_to_file()
\* returns 1 at time 0 and at the multiples of output_frequency and 0 elsewhere
C26_TimeLoopAndOutput == TimeLoopAdvances /\ OutputWhenDue

====
